---- MODULE Spec2Model ----
(***************************************************************************)
(* Token-bucket rate limiter (codewithshumon/rate-limiter).                *)
(*                                                                         *)
(* The model follows src/src/services/rateLimiter.js (RateLimiter),        *)
(* src/src/services/redis.js (RedisClient), src/unnamed/part_004           *)
(* (InMemoryFallback, with its per-key lock) and src/unnamed/part_006      *)
(* (LIMITS).                                                               *)
(*                                                                         *)
(* Execution model.  The program runs on a single-threaded event loop: a   *)
(* piece of code between two awaits runs without interruption, and any     *)
(* other pending call may run at an await.  Each action below is one such  *)
(* uninterrupted piece of one checkRateLimit call.  A command sent to      *)
(* Redis runs on the server in a step of its own; the one connection       *)
(* carries the commands in the order they were sent.                       *)
(*                                                                         *)
(* Numbers.  Time is in whole seconds.  Token counts are real numbers in   *)
(* the code; here they are integers counting 1/TokenScale of a token,      *)
(* which is exact because every refill adds                                *)
(* seconds * maxTokens / window tokens and window divides TokenScale.      *)
(* Multipliers are fractions: regions in tenths, the slow-start multiplier *)
(* over MultDen.  Floating-point rounding is not modelled.                 *)
(***************************************************************************)
EXTENDS Integers, Sequences, FiniteSets, TLC

VARIABLES
    clock,        \* Date.now(), in seconds
    redisClient,  \* RedisClient: [client: is there a client, isConnected]
    useFallback,  \* RateLimiter.useFallback
    fbStore,      \* InMemoryFallback.store: key -> value (a Map)
    locks,        \* InMemoryFallback.locks: the keys locked
    rdStore,      \* the Redis server's keys: key -> value
    rdQueue,      \* commands sent to Redis and not yet run, oldest first
    call,         \* per caller slot: the checkRateLimit call in progress
    returned,     \* history: the call that returned last, with its result
    ncalls,       \* calls started so far (bounds the run)
    nticks,       \* clock changes so far (bounds the run)
    admitted,     \* history: calls that returned allowed = true
    rejected,     \* history: calls that returned allowed = false
    inMemoryStats, \* Analytics.inMemoryStats: [hits, blocks], key -> count
    securityLog,  \* Analytics.securityLog: the events, oldest first
    tracks,       \* analytics.track calls waiting for Redis: id -> task
    tracked,      \* history: the analytics.track calls made, oldest first
    updated       \* history: the last updateConfig call and its outcome

(* The state of the Analytics object, with the history of its calls *)
analytics == <<inMemoryStats, securityLog, tracks, tracked>>

vars == <<clock, redisClient, useFallback, fbStore, locks, rdStore, rdQueue, call,
          returned, ncalls, nticks, admitted, rejected, analytics, updated>>

-----------------------------------------------------------------------------
(* Bounds of the model *)

NumCallers == 2
MaxCalls == 2
MaxTicks == 1
BurstExtra == 2
SeqDenials == 1

(* The clock reading of the initial state; time steps the clock may take.  *)
ClockStart == 1000
TickSteps == {1, 130}
RegressSteps == {40}

Callers == 1..NumCallers

-----------------------------------------------------------------------------
(* Configuration: src/unnamed/part_006 *)

LIMITS ==
    [endpoints |->
        ( "/api/search"   :> [requests |-> 100, window |-> 60, burst |-> 20, cost |-> 1]
       @@ "/api/checkout" :> [requests |-> 10,  window |-> 60, burst |-> 2,  cost |-> 5]
       @@ "/api/profile"  :> [requests |-> 50,  window |-> 60, burst |-> 10, cost |-> 1] ),
     tiers |-> ( "free" :> 1 @@ "premium" :> 3 @@ "enterprise" :> 10 ),
     \* region multipliers in tenths: 1.0, 1.0, 0.8, 0.6, 1.0
     regions |-> ( "us-east" :> 10 @@ "us-west" :> 10 @@ "eu-west" :> 8
                @@ "ap-south" :> 6 @@ "default" :> 10 ),
     \* startMultiplier 0.5 = startNum / startDen
     slowStart |-> [enabled |-> TRUE, durationSeconds |-> 300,
                    startNum |-> 1, startDen |-> 2]]

RegionDen == 10

(* The slow-start multiplier is kept as a numerator over MultDen.          *)
MultDen == LIMITS.slowStart.startDen * LIMITS.slowStart.durationSeconds

(* Token counts are kept in units of 1/TokenScale token; every endpoint's  *)
(* window is 60 seconds.                                                   *)
TokenScale == LIMITS.endpoints["/api/search"].window

(* JavaScript's Infinity (the remaining of the unlimited tier, a division  *)
(* by a zero refill rate): larger than every number of the model.          *)
Infinity == 10 ^ 9

(* The remaining reported for an endpoint without a quota.                 *)
UnknownEndpointRemaining == 1000

(* JavaScript's NaN, kept as a number outside the range of the model.  No  *)
(* arithmetic is done on it: every operator below tests for it first.      *)
NaN == (0 - Infinity) - 1

IsNaN(x) == x = NaN

(* LIMITS.tiers and LIMITS.regions are object literals, so a lookup also   *)
(* finds the properties they inherit from Object.prototype: for these      *)
(* names the value looked up is a function.                                *)
ObjectPrototype == {"constructor", "toString"}

-----------------------------------------------------------------------------
(* Arithmetic *)

Min(a, b) == IF a <= b THEN a ELSE b
Max(a, b) == IF a >= b THEN a ELSE b

(* Math.floor(a / b) and Math.ceil(a / b) for b > 0 *)
Floor(a, b) == a \div b
Ceil(a, b) == -((-a) \div b)

-----------------------------------------------------------------------------
(* Keys *)

BucketKey(userId, endpoint) == <<"ratelimit", userId, endpoint>>
SlowStartKey(userId) == <<"slowstart", userId>>

(* Map.get(key) || null, on either store.  "No entry" is the empty record  *)
(* of the kind asked for.                                                  *)
NoBucket == [present |-> FALSE, tokens |-> 0, lastRefill |-> 0]

MapSet(m, k, v) == (k :> v) @@ m
MapDel(m, ks) == [x \in (DOMAIN m) \ ks |-> m[x]]

-----------------------------------------------------------------------------
(* checkRateLimit: the limits of a call                                    *)

(* LIMITS.tiers[tier] || 1.  An inherited property is a function, which is *)
(* truthy, and a number times a function is NaN: the multiplier then acts  *)
(* as NaN.                                                                 *)
TierMultiplier(tier) ==
    IF tier \in DOMAIN LIMITS.tiers
    THEN (IF LIMITS.tiers[tier] # 0 THEN LIMITS.tiers[tier] ELSE 1)
    ELSE IF tier \in ObjectPrototype THEN NaN
    ELSE 1

(* LIMITS.regions[region] || LIMITS.regions.default, in tenths *)
RegionMultiplier(region) ==
    IF region \in DOMAIN LIMITS.regions
    THEN (IF LIMITS.regions[region] # 0 THEN LIMITS.regions[region]
          ELSE LIMITS.regions["default"])
    ELSE IF region \in ObjectPrototype THEN NaN
    ELSE LIMITS.regions["default"]

(* Math.floor(requests * tierMultiplier * regionMultiplier * slowStart),   *)
(* ssMult being the slow-start multiplier's numerator over MultDen.        *)
MaxTokens(cfg, tier, region, ssMult) ==
    IF IsNaN(TierMultiplier(tier)) \/ IsNaN(RegionMultiplier(region))
    THEN NaN
    ELSE Floor(cfg.requests * TierMultiplier(tier) * RegionMultiplier(region)
                 * ssMult,
               RegionDen * MultDen)

(* Mutant of BurstTokens: there is no burst allowance. *)
BurstTokensNone(cfg, tier) == 0

(* Math.floor(burst * tierMultiplier) *)
BurstTokens(cfg, tier) ==
    IF IsNaN(TierMultiplier(tier)) THEN NaN
    ELSE Floor(cfg.burst * TierMultiplier(tier), 1)

(* Mutant of TotalCapacity: the burst allowance is left out. *)
TotalCapacityBaseOnly(cfg, tier, region, ssMult) ==
    MaxTokens(cfg, tier, region, ssMult)

(* totalCapacity = maxTokens + burstTokens *)
TotalCapacity(cfg, tier, region, ssMult) ==
    IF IsNaN(MaxTokens(cfg, tier, region, ssMult)) \/ IsNaN(BurstTokens(cfg, tier))
    THEN NaN
    ELSE MaxTokens(cfg, tier, region, ssMult) + BurstTokens(cfg, tier)

(* refillRate = maxTokens / window, in 1/TokenScale tokens per second *)
RefillRate(maxTokens, window) ==
    IF IsNaN(maxTokens) THEN NaN ELSE (maxTokens * TokenScale) \div window

(* Mutant of Cost: the caller's requestCost is ignored. *)
CostConfiguredOnly(cfg, requestCost) == IF cfg.cost = 0 THEN 1 ELSE cfg.cost

(* (endpointConfig.cost || 1) * requestCost *)
Cost(cfg, requestCost) == (IF cfg.cost = 0 THEN 1 ELSE cfg.cost) * requestCost

-----------------------------------------------------------------------------
(* getSlowStartMultiplier *)

(* Mutant of IsFalsy: every check takes the principal for a new one. *)
IsFalsyAlways(firstSeen) == TRUE

(* !firstSeen: null (kept as 0) and 0 are both falsy *)
IsFalsy(firstSeen) == firstSeen = 0

(* The multiplier for a known firstSeen, as a numerator over MultDen:      *)
(* 1.0 once elapsed >= durationSeconds, else                               *)
(* startMultiplier + (elapsed / durationSeconds) * (1.0 - startMultiplier) *)
RampMultiplier(firstSeen, now) ==
    LET ss == LIMITS.slowStart
        elapsed == now - firstSeen
    IN  IF elapsed >= ss.durationSeconds
        THEN MultDen
        ELSE ss.startNum * ss.durationSeconds + elapsed * (ss.startDen - ss.startNum)

(* LIMITS.slowStart.startMultiplier *)
StartMultiplier == LIMITS.slowStart.startNum * LIMITS.slowStart.durationSeconds

(* 1.0 *)
FullMultiplier == MultDen

-----------------------------------------------------------------------------
(* The token-bucket arithmetic of the two backends.  bucket is the entry   *)
(* read (NoBucket when there is none); capacity and cost are in tokens,    *)
(* refillRate in 1/TokenScale tokens per second.  The result holds what is *)
(* stored (tokens, lastRefill), what is returned (allowed, remaining,      *)
(* retryAfter) and the token count the check evaluated (refilled).         *)

(* Mutant of Refill: the refilled count is not capped at the capacity. *)
RefillNoCap(bucket, now, capacity, refillRate) ==
    IF bucket.present
    THEN bucket.tokens + (now - bucket.lastRefill) * refillRate
    ELSE capacity * TokenScale

(* Mutant of Refill: a key seen for the first time starts with no tokens. *)
RefillStartsEmpty(bucket, now, capacity, refillRate) ==
    IF bucket.present
    THEN Min(capacity * TokenScale,
             bucket.tokens + (now - bucket.lastRefill) * refillRate)
    ELSE 0

(* tokens = capacity; if (bucket) tokens = Math.min(capacity,              *)
(*     bucket.tokens + (now - bucket.lastRefill) * refillRate)             *)
(* (Math.min is NaN when an argument is.)                                  *)
Refill(bucket, now, capacity, refillRate) ==
    IF IsNaN(capacity) THEN NaN
    ELSE IF bucket.present
    THEN IF IsNaN(bucket.tokens) \/ IsNaN(refillRate) THEN NaN
         ELSE Min(capacity * TokenScale,
                  bucket.tokens + (now - bucket.lastRefill) * refillRate)
    ELSE capacity * TokenScale

(* Math.ceil((cost - tokens) / refillRate); a zero rate divides to         *)
(* Infinity (the check is denied, so cost - tokens > 0).                   *)
CeilWait(deficit, refillRate) ==
    IF refillRate > 0 THEN Ceil(deficit, refillRate)
    ELSE IF refillRate < 0 THEN -Floor(deficit, -refillRate)
    ELSE Infinity

(* Mutant of Allowed: every check is admitted. *)
AllowedAlways(tokens, cost) == TRUE

(* allowed = tokens >= cost (false for NaN) *)
Allowed(tokens, cost) == ~IsNaN(tokens) /\ tokens >= cost * TokenScale

(* Mutant of Consume: an admitted check takes no tokens. *)
ConsumeNothing(tokens, cost) == tokens

(* tokens - cost *)
Consume(tokens, cost) == tokens - cost * TokenScale

(* Mutant of ProcessFallbackMath: a denied check empties the bucket. *)
ProcessFallbackMathDenialDrains(bucket, now, capacity, refillRate, cost) ==
    LET tokens == Refill(bucket, now, capacity, refillRate)
        allowed == Allowed(tokens, cost)
        remaining == IF allowed THEN Max(0, Consume(tokens, cost)) ELSE 0
        retryAfter == IF allowed THEN 0
                      ELSE IF IsNaN(tokens) \/ IsNaN(refillRate) THEN NaN
                      ELSE Max(0, CeilWait(cost * TokenScale - tokens, refillRate))
    IN  [tokens |-> remaining, lastRefill |-> now, refilled |-> tokens,
         allowed |-> allowed,
         remaining |-> IF IsNaN(remaining) THEN NaN
                       ELSE Floor(remaining, TokenScale),
         retryAfter |-> retryAfter]

(* processFallback, lines 125-146.  (Math.max, Math.ceil and Math.floor    *)
(* of NaN are NaN.)                                                        *)
ProcessFallbackMath(bucket, now, capacity, refillRate, cost) ==
    LET tokens == Refill(bucket, now, capacity, refillRate)
        allowed == Allowed(tokens, cost)
        remaining == IF allowed THEN Max(0, Consume(tokens, cost)) ELSE tokens
        retryAfter == IF allowed THEN 0
                      ELSE IF IsNaN(tokens) \/ IsNaN(refillRate) THEN NaN
                      ELSE Max(0, CeilWait(cost * TokenScale - tokens, refillRate))
    IN  [tokens |-> remaining, lastRefill |-> now, refilled |-> tokens,
         allowed |-> allowed,
         remaining |-> IF IsNaN(remaining) THEN NaN
                       ELSE Floor(remaining, TokenScale),
         retryAfter |-> retryAfter]

(* A Lua number returned to Redis is cut to an integer (towards zero).     *)
Truncate(tokens) ==
    IF tokens >= 0 THEN tokens \div TokenScale ELSE -((-tokens) \div TokenScale)

(* The Lua script of processRedis, lines 77-105, and the mapping of its    *)
(* reply, lines 113-117.  (With a zero refill rate the script divides to   *)
(* inf, whose conversion to an integer reply is not modelled: the model's  *)
(* clocks keep every refill rate positive.  Nor is the script's handling   *)
(* of a NaN argument: the names of ObjectPrototype are given only to calls *)
(* that run on the fallback.)                                              *)
ProcessRedisMath(bucket, now, capacity, refillRate, cost) ==
    LET tokens == Refill(bucket, now, capacity, refillRate)
        allowed == Allowed(tokens, cost)
        remaining == IF allowed THEN Consume(tokens, cost) ELSE tokens
        retryAfter == IF allowed THEN 0
                      ELSE CeilWait(cost * TokenScale - tokens, refillRate)
    IN  [tokens |-> remaining, lastRefill |-> now, refilled |-> tokens,
         allowed |-> allowed, remaining |-> Truncate(remaining),
         retryAfter |-> retryAfter]

-----------------------------------------------------------------------------
(* State *)

NoResult == [allowed |-> FALSE, remaining |-> 0, retryAfter |-> 0]

(* No updateConfig call has been made. *)
NoUpdate ==
    [newLimits |-> [object |-> FALSE, endpoints |-> "absent", tiers |-> "absent"],
     outcome |-> "none"]

(* A caller slot with no call in progress.  The record of a call holds its *)
(* arguments, its local variables, its result and, once it has returned,   *)
(* path: the way it returned.                                              *)
IdleCall ==
    [pc |-> "idle", path |-> "none",
     userId |-> "", endpoint |-> "", tier |-> "", region |-> "", requestCost |-> 0,
     firstSeen |-> 0, ssNow |-> 0, ssMult |-> 0,
     now |-> 0, maxTokens |-> 0, capacity |-> 0, cost |-> 0,
     bucket |-> NoBucket, refilled |-> 0, result |-> NoResult,
     \* history: the call found its key's lock held and waited for it
     waited |-> FALSE,
     \* history: the backends the call's store accesses were sent to
     stores |-> {}]

(* redisClient.isHealthy(): isConnected && client && client.isOpen *)
IsHealthy == redisClient.isConnected /\ redisClient.client

(* this.useFallback || !redisClient.isHealthy() *)
UseLocal == useFallback \/ ~IsHealthy

(* fallback.get(key) for a bucket and for a slow-start record *)
FallbackGetBucket(key) ==
    IF key \in DOMAIN fbStore
    THEN [present |-> TRUE, tokens |-> fbStore[key].tokens,
          lastRefill |-> fbStore[key].lastRefill]
    ELSE NoBucket

FallbackGetFirstSeen(key) ==
    IF key \in DOMAIN fbStore THEN fbStore[key].timestamp ELSE 0

(* A key of the Redis server is there until its EXPIRE / SETEX time.       *)
RedisHas(key) == key \in DOMAIN rdStore /\ rdStore[key].expiresAt > clock

(* HMGET key tokens lastRefill, and GET key, on the Redis server *)
RedisGetBucket(key) ==
    IF RedisHas(key)
    THEN [present |-> TRUE, tokens |-> rdStore[key].tokens,
          lastRefill |-> rdStore[key].lastRefill]
    ELSE NoBucket

RedisGetFirstSeen(key) ==
    IF RedisHas(key) THEN rdStore[key].timestamp ELSE 0

(* new RateLimiter(), new RedisClient(), new InMemoryFallback() *)
Init ==
    /\ clock = ClockStart
    /\ redisClient = [client |-> FALSE, isConnected |-> FALSE]
    /\ useFallback = FALSE
    /\ fbStore = << >>
    /\ locks = {}
    /\ rdStore = << >>
    /\ rdQueue = << >>
    /\ call = [p \in Callers |-> IdleCall]
    /\ returned = IdleCall
    /\ ncalls = 0
    /\ nticks = 0
    /\ admitted = 0
    /\ rejected = 0
    /\ inMemoryStats = [hits |-> << >>, blocks |-> << >>]
    /\ securityLog = << >>
    /\ tracks = << >>
    /\ tracked = << >>
    /\ updated = NoUpdate

-----------------------------------------------------------------------------
(* Environment: the clock, the Redis connection *)

(* Time passes. *)
Tick(d) ==
    /\ nticks < MaxTicks
    /\ clock' = clock + d
    /\ nticks' = nticks + 1
    /\ UNCHANGED <<redisClient, useFallback, fbStore, locks, rdStore, rdQueue, call,
                   returned, ncalls, admitted, rejected, analytics, updated>>

(* The wall clock is set back. *)
Regress(d) ==
    /\ nticks < MaxTicks
    /\ clock - d > 0
    /\ clock' = clock - d
    /\ nticks' = nticks + 1
    /\ UNCHANGED <<redisClient, useFallback, fbStore, locks, rdStore, rdQueue, call,
                   returned, ncalls, admitted, rejected, analytics, updated>>

(* RateLimiter.initialize() runs once, started by app.js (lines 9-12)      *)
(* without the server waiting for it.                                      *)
(* RateLimiter.initialize() with RedisClient.connect() succeeding: the     *)
(* 'connect' event sets isConnected; useFallback is left as it is.         *)
InitializeConnected ==
    /\ ~redisClient.client /\ ~useFallback
    /\ redisClient' = [client |-> TRUE, isConnected |-> TRUE]
    /\ UNCHANGED <<clock, useFallback, fbStore, locks, rdStore, rdQueue, call,
                   returned, ncalls, nticks, admitted, rejected, analytics, updated>>

(* RateLimiter.initialize() with RedisClient.connect() failing: connect    *)
(* returns with client = null, and initialize sets useFallback.            *)
InitializeFailed ==
    /\ ~redisClient.client /\ ~useFallback
    /\ redisClient' = [client |-> FALSE, isConnected |-> FALSE]
    /\ useFallback' = TRUE
    /\ UNCHANGED <<clock, fbStore, locks, rdStore, rdQueue, call,
                   returned, ncalls, nticks, admitted, rejected, analytics, updated>>

(* The client's 'error' event *)
RedisError ==
    /\ redisClient.client
    /\ redisClient.isConnected
    /\ redisClient' = [redisClient EXCEPT !.isConnected = FALSE]
    /\ UNCHANGED <<clock, useFallback, fbStore, locks, rdStore, rdQueue, call,
                   returned, ncalls, nticks, admitted, rejected, analytics, updated>>

(* The client's 'connect' event (the client reconnects by itself) *)
RedisConnect ==
    /\ redisClient.client
    /\ ~redisClient.isConnected
    /\ redisClient' = [redisClient EXCEPT !.isConnected = TRUE]
    /\ UNCHANGED <<clock, useFallback, fbStore, locks, rdStore, rdQueue, call,
                   returned, ncalls, nticks, admitted, rejected, analytics, updated>>

-----------------------------------------------------------------------------
(* checkRateLimit, one action per uninterrupted piece *)

KeyOf(c) == BucketKey(c.userId, c.endpoint)

(* A string of the analytics keys is kept as the list of its parts between *)
(* colons, what key.split(':') returns: a name holding a colon is several  *)
(* parts.                                                                  *)
Split(name) == IF name = "eu:west" THEN <<"eu", "west">> ELSE <<name>>

(* Analytics: the counters' keys.  key is analytics:endpoint:tier:region,  *)
(* the Redis counter's key has :allowed or :blocked after it.              *)
AnalyticsKey(endpoint, tier, region) ==
    <<"analytics">> \o Split(endpoint) \o Split(tier) \o Split(region)
StatsKey(key, allowed) == Append(key, IF allowed THEN "allowed" ELSE "blocked")

(* statsObj[key] || 0 *)
Count(statsObj, key) == IF key \in DOMAIN statsObj THEN statsObj[key] ELSE 0

(* The bound of the security log, and the counters' time to live *)
SecurityLogCap == 1000
StatsTtl == 3600

(* logSecurityEvent, lines 238-244: push, then shift when over the bound *)
SecurityEvent(userId, endpoint, timestamp) ==
    [userId |-> userId, endpoint |-> endpoint, timestamp |-> timestamp,
     type |-> "rate_limit_exceeded"]

(* logSecurityEvent without the shift of lines 242-244 *)
LogSecurityEventUnbounded(log, event) == Append(log, event)

LogSecurityEvent(log, event) ==
    LET pushed == Append(log, event)
    IN  IF Len(pushed) > SecurityLogCap THEN Tail(pushed) ELSE pushed

(* A call of analytics.track(userId, endpoint, tier, region, allowed)      *)
TrackTask(userId, endpoint, tier, region, allowed) ==
    [userId |-> userId, endpoint |-> endpoint, tier |-> tier,
     region |-> region, allowed |-> allowed, timestamp |-> clock,
     pc |-> "incr"]

(* The name under which a track call waits for Redis *)
TrackId == NumCallers + Len(tracked) + 1

(* analytics.track as far as its first await, lines 216-231.  With Redis   *)
(* healthy it sends INCR and goes on when the reply is there; otherwise it *)
(* counts in memory and, for a denial, logs the security event at once.    *)
Track(userId, endpoint, tier, region, allowed) ==
    LET t == TrackTask(userId, endpoint, tier, region, allowed)
        key == AnalyticsKey(t.endpoint, t.tier, t.region)
        statsObj == IF t.allowed THEN inMemoryStats.hits ELSE inMemoryStats.blocks
        counted == MapSet(statsObj, key, Count(statsObj, key) + 1)
    IN  /\ tracked' = Append(tracked, t)
        /\ IF IsHealthy
           THEN /\ tracks' = (TrackId :> t) @@ tracks
                /\ rdQueue' = Append(rdQueue, TrackId)
                /\ UNCHANGED <<inMemoryStats, securityLog>>
           ELSE /\ inMemoryStats' = IF t.allowed
                                    THEN [inMemoryStats EXCEPT !.hits = counted]
                                    ELSE [inMemoryStats EXCEPT !.blocks = counted]
                /\ securityLog' =
                      IF t.allowed THEN securityLog
                      ELSE LogSecurityEvent(securityLog,
                               SecurityEvent(t.userId, t.endpoint, t.timestamp))
                /\ UNCHANGED <<tracks, rdQueue>>

(* A call hands rec.result to its caller. *)
Deliver(p, rec) ==
    /\ call' = [call EXCEPT ![p] = IdleCall]
    /\ returned' = [rec EXCEPT !.pc = "returned"]
    /\ admitted' = admitted + (IF rec.result.allowed THEN 1 ELSE 0)
    /\ rejected' = rejected + (IF rec.result.allowed THEN 0 ELSE 1)

(* A call returns rec.result from an early exit or from the catch: lines   *)
(* 27, 32 and 64, which do not reach analytics.track.                      *)
Return(p, rec) ==
    /\ Deliver(p, rec)
    /\ UNCHANGED <<analytics, updated>>

(* A call returns the result of its check-and-consume, lines 59-61:        *)
(* analytics.track is called, not awaited, and the result returned.        *)
ReturnTracked(p, rec) ==
    /\ Deliver(p, rec)
    /\ Track(rec.userId, rec.endpoint, rec.tier, rec.region, rec.result.allowed)
    /\ UNCHANGED updated

Goto(p, rec) ==
    /\ call' = [call EXCEPT ![p] = rec]
    /\ UNCHANGED <<returned, admitted, rejected, analytics, updated>>

(* Mutant of LockHeld: acquireLock never waits. *)
LockAlwaysFree(key) == FALSE

(* Mutant of LockHeld: one lock for all keys. *)
LockHeldAnyKey(key) == locks # {}

(* Mutant of LockHeld: acquireLock's loop never finds the lock free. *)
LockHeldForever(key) == TRUE

(* this.locks.has(lockKey): part_004 line 68 *)
LockHeld(key) == key \in locks

(* Mutant of LockTaken: acquireLock does not record the lock. *)
LockNotTaken(key) == locks

(* this.locks.set(lockKey, true): part_004 line 71 *)
LockTaken(key) == locks \cup {key}

(* Mutant of LockReleased: release() leaves the lock where it is. *)
LockKept(key) == locks

(* release(): this.locks.delete(lockKey), part_004 line 72 *)
LockReleased(key) == locks \ {key}

(* Mutant of IsUnlimited: the early exit is missing. *)
IsUnlimitedNever(tier) == FALSE

(* tier === 'unlimited', line 26 *)
IsUnlimited(tier) == tier = "unlimited"

(* The early exit of the unlimited tier, lines 26-28 *)
UnlimitedResult == [allowed |-> TRUE, remaining |-> Infinity, retryAfter |-> 0]

(* Mutant of UnknownEndpointResult: an unknown endpoint is denied. *)
UnknownEndpointDenied ==
    [allowed |-> FALSE, remaining |-> 0, retryAfter |-> 0]

(* The exit for an endpoint without a quota, lines 30-33 *)
UnknownEndpointResult ==
    [allowed |-> TRUE, remaining |-> UnknownEndpointRemaining, retryAfter |-> 0]

(* The catch of checkRateLimit, lines 62-65 *)
FailOpenResult(c) ==
    [allowed |-> TRUE, remaining |-> c.maxTokens, retryAfter |-> 0]

(* checkRateLimit is called: lines 25-37, and getSlowStartMultiplier up to *)
(* its first await (lines 151-161).  fallback.get reads the store at once; *)
(* redis.get is sent and runs on the server later.                         *)
CallStart(p, userId, endpoint, tier, region, requestCost) ==
    LET c == [IdleCall EXCEPT !.userId = userId, !.endpoint = endpoint,
                              !.tier = tier, !.region = region,
                              !.requestCost = requestCost]
    IN  /\ call[p].pc = "idle"
        \* idle slots are interchangeable: the call takes the first one
        /\ \A q \in Callers : q < p => call[q].pc # "idle"
        /\ ncalls' = ncalls + 1
        /\ IF IsUnlimited(tier)
           THEN Return(p, [c EXCEPT !.path = "unlimited", !.result = UnlimitedResult])
           ELSE IF endpoint \notin DOMAIN LIMITS.endpoints
           THEN Return(p, [c EXCEPT !.path = "unknown",
                                    !.result = UnknownEndpointResult])
           ELSE IF ~LIMITS.slowStart.enabled
           THEN Goto(p, [c EXCEPT !.pc = "ss_done", !.ssMult = FullMultiplier])
           ELSE IF UseLocal
           THEN Goto(p, [c EXCEPT !.pc = "ss_got", !.stores = {"fallback"},
                         !.firstSeen = FallbackGetFirstSeen(SlowStartKey(userId))])
           ELSE Goto(p, [c EXCEPT !.pc = "ss_redis_get", !.stores = {"redis"}])
        /\ rdQueue' = IF /\ ~IsUnlimited(tier)
                         /\ endpoint \in DOMAIN LIMITS.endpoints
                         /\ LIMITS.slowStart.enabled
                         /\ ~UseLocal
                      THEN Append(rdQueue, p) ELSE rdQueue
        /\ UNCHANGED <<clock, redisClient, useFallback, fbStore, locks, rdStore,
                       nticks>>

(* The server runs GET slowstart:<userId>: line 161 *)
RedisSsGet(p) ==
    /\ call[p].pc = "ss_redis_get"
    /\ rdQueue # << >> /\ Head(rdQueue) = p
    /\ rdQueue' = Tail(rdQueue)
    /\ Goto(p, [call[p] EXCEPT !.pc = "ss_got",
                !.firstSeen = RedisGetFirstSeen(SlowStartKey(call[p].userId))])
    /\ UNCHANGED <<clock, redisClient, useFallback, fbStore, locks, rdStore,
                   ncalls, nticks>>

(* redis.get or redis.setEx throws: the catch of lines 182-185 returns 1.0 *)
RedisSsError(p) ==
    /\ call[p].pc \in {"ss_redis_get", "ss_redis_set"}
    /\ rdQueue # << >> /\ Head(rdQueue) = p
    /\ rdQueue' = Tail(rdQueue)
    /\ Goto(p, [call[p] EXCEPT !.pc = "ss_done", !.ssMult = FullMultiplier])
    /\ UNCHANGED <<clock, redisClient, useFallback, fbStore, locks, rdStore,
                   ncalls, nticks>>

(* getSlowStartMultiplier after its read: lines 164-181.  A first          *)
(* observation records Date.now() (fallback.set writes at once; setEx is   *)
(* sent) and gives startMultiplier; otherwise the ramp.                    *)
SsResume(p) ==
    LET c == call[p]
        key == SlowStartKey(c.userId)
    IN  /\ c.pc = "ss_got"
        /\ IF IsFalsy(c.firstSeen)
           THEN IF UseLocal
                THEN /\ fbStore' = MapSet(fbStore, key,
                            [timestamp |-> clock,
                             expiresAt |-> clock + LIMITS.slowStart.durationSeconds])
                     /\ Goto(p, [c EXCEPT !.pc = "ss_done", !.ssNow = clock,
                                          !.ssMult = StartMultiplier,
                                          !.stores = @ \cup {"fallback"}])
                ELSE /\ Goto(p, [c EXCEPT !.pc = "ss_redis_set", !.ssNow = clock,
                                          !.stores = @ \cup {"redis"}])
                     /\ UNCHANGED fbStore
           ELSE /\ Goto(p, [c EXCEPT !.pc = "ss_done",
                                     !.ssMult = RampMultiplier(c.firstSeen, clock)])
                /\ UNCHANGED fbStore
        /\ rdQueue' = IF IsFalsy(c.firstSeen) /\ ~UseLocal
                      THEN Append(rdQueue, p) ELSE rdQueue
        /\ UNCHANGED <<clock, redisClient, useFallback, locks, rdStore,
                       ncalls, nticks>>

(* The server runs SETEX slowstart:<userId> durationSeconds now: line 169  *)
RedisSsSet(p) ==
    LET c == call[p]
    IN  /\ c.pc = "ss_redis_set"
        /\ rdQueue # << >> /\ Head(rdQueue) = p
        /\ rdQueue' = Tail(rdQueue)
        /\ rdStore' = MapSet(rdStore, SlowStartKey(c.userId),
                [timestamp |-> c.ssNow,
                 expiresAt |-> clock + LIMITS.slowStart.durationSeconds])
        /\ Goto(p, [c EXCEPT !.pc = "ss_done", !.ssMult = StartMultiplier])
        /\ UNCHANGED <<clock, redisClient, useFallback, fbStore, locks,
                       ncalls, nticks>>

(* checkRateLimit after the slow-start lookup: lines 39-57, into           *)
(* processFallback and acquireLock (part_004 lines 66-72), or into         *)
(* processRedis up to the eval it sends.                                   *)
CheckResume(p) ==
    LET c == call[p]
        cfg == LIMITS.endpoints[c.endpoint]
        d == [c EXCEPT !.maxTokens = MaxTokens(cfg, c.tier, c.region, c.ssMult),
                       !.capacity = TotalCapacity(cfg, c.tier, c.region, c.ssMult),
                       !.cost = Cost(cfg, c.requestCost),
                       !.now = clock,
                       !.stores = @ \cup {IF UseLocal THEN "fallback" ELSE "redis"}]
    IN  /\ c.pc = "ss_done"
        /\ IF UseLocal
           THEN IF LockHeld(KeyOf(c))
                THEN /\ Goto(p, [d EXCEPT !.pc = "lock_wait", !.waited = TRUE])
                     /\ UNCHANGED locks
                ELSE /\ Goto(p, [d EXCEPT !.pc = "locked"])
                     /\ locks' = LockTaken(KeyOf(c))
           ELSE /\ Goto(p, [d EXCEPT !.pc = "redis_eval"])
                /\ UNCHANGED locks
        /\ rdQueue' = IF UseLocal THEN rdQueue ELSE Append(rdQueue, p)
        /\ UNCHANGED <<clock, redisClient, useFallback, fbStore, rdStore,
                       ncalls, nticks>>

(* acquireLock's loop finds the lock free after a 10 ms wait and takes it  *)
LockPoll(p) ==
    LET c == call[p]
    IN  /\ c.pc = "lock_wait"
        /\ ~LockHeld(KeyOf(c))
        /\ UNCHANGED rdQueue
        /\ locks' = LockTaken(KeyOf(c))
        /\ Goto(p, [c EXCEPT !.pc = "locked"])
        /\ UNCHANGED <<clock, redisClient, useFallback, fbStore, rdStore,
                       ncalls, nticks>>

(* processFallback inside the lock: fallback.get(key), line 123 *)
FallbackGet(p) ==
    LET c == call[p]
    IN  /\ c.pc = "locked"
        /\ UNCHANGED rdQueue
        /\ Goto(p, [c EXCEPT !.pc = "bucket_read",
                             !.bucket = FallbackGetBucket(KeyOf(c))])
        /\ UNCHANGED <<clock, redisClient, useFallback, fbStore, locks, rdStore,
                       ncalls, nticks>>

(* processFallback: the arithmetic and fallback.set, lines 125-144 *)
FallbackSet(p) ==
    LET c == call[p]
        window == LIMITS.endpoints[c.endpoint].window
        r == ProcessFallbackMath(c.bucket, c.now, c.capacity,
                                 RefillRate(c.maxTokens, window), c.cost)
    IN  /\ c.pc = "bucket_read"
        /\ UNCHANGED rdQueue
        /\ fbStore' = MapSet(fbStore, KeyOf(c),
                [tokens |-> r.tokens, lastRefill |-> r.lastRefill,
                 expiresAt |-> clock + window * 2])
        /\ Goto(p, [c EXCEPT !.pc = "bucket_written", !.refilled = r.refilled,
                    !.result = [allowed |-> r.allowed, remaining |-> r.remaining,
                                retryAfter |-> r.retryAfter]])
        /\ UNCHANGED <<clock, redisClient, useFallback, locks, rdStore,
                       ncalls, nticks>>

(* withLock's finally releases the lock (part_004 lines 79-81);            *)
(* checkRateLimit returns the result, lines 59-61                          *)
FallbackReturn(p) ==
    LET c == call[p]
    IN  /\ c.pc = "bucket_written"
        /\ locks' = LockReleased(KeyOf(c))
        /\ ReturnTracked(p, [c EXCEPT !.path = "fallback"])
        /\ UNCHANGED <<clock, redisClient, useFallback, fbStore, rdStore,
                       ncalls, nticks>>

(* The function run inside the lock throws: withLock's finally releases    *)
(* the lock (part_004 lines 77-81), and the catch of checkRateLimit, lines *)
(* 62-65, returns the fail-open result.                                    *)
FallbackThrow(p) ==
    LET c == call[p]
    IN  /\ c.pc \in {"locked", "bucket_read"}
        /\ locks' = LockReleased(KeyOf(c))
        /\ Return(p, [c EXCEPT !.path = "error", !.result = FailOpenResult(c)])
        /\ UNCHANGED <<clock, redisClient, useFallback, fbStore, rdStore, rdQueue,
                       ncalls, nticks>>

(* The server runs the Lua script, lines 77-105, as one operation *)
RedisEval(p) ==
    LET c == call[p]
        window == LIMITS.endpoints[c.endpoint].window
        bucket == RedisGetBucket(KeyOf(c))
        r == ProcessRedisMath(bucket, c.now, c.capacity,
                              RefillRate(c.maxTokens, window), c.cost)
    IN  /\ c.pc = "redis_eval"
        /\ rdQueue # << >> /\ Head(rdQueue) = p
        /\ rdQueue' = Tail(rdQueue)
        /\ rdStore' = MapSet(rdStore, KeyOf(c),
                [tokens |-> r.tokens, lastRefill |-> r.lastRefill,
                 expiresAt |-> clock + window * 2])
        /\ Goto(p, [c EXCEPT !.pc = "redis_replied", !.bucket = bucket,
                    !.refilled = r.refilled,
                    !.result = [allowed |-> r.allowed, remaining |-> r.remaining,
                                retryAfter |-> r.retryAfter]])
        /\ UNCHANGED <<clock, redisClient, useFallback, fbStore, locks,
                       ncalls, nticks>>

(* redis.eval throws: the catch of checkRateLimit, lines 62-65 *)
RedisEvalError(p) ==
    LET c == call[p]
    IN  /\ c.pc = "redis_eval"
        /\ rdQueue # << >> /\ Head(rdQueue) = p
        /\ rdQueue' = Tail(rdQueue)
        /\ Return(p, [c EXCEPT !.path = "error", !.result = FailOpenResult(c)])
        /\ UNCHANGED <<clock, redisClient, useFallback, fbStore, locks, rdStore,
                       ncalls, nticks>>

(* processRedis maps the reply; checkRateLimit returns it, lines 113-117   *)
(* and 59-61                                                               *)
RedisReturn(p) ==
    LET c == call[p]
    IN  /\ c.pc = "redis_replied"
        /\ ReturnTracked(p, [c EXCEPT !.path = "redis"])
        /\ UNCHANGED <<clock, redisClient, useFallback, fbStore, locks, rdStore,
                       ncalls, nticks>>

-----------------------------------------------------------------------------
(* analytics.track after its first await, lines 222-231 *)

(* The server runs INCR statsKey (line 222); track sends EXPIRE. *)
TrackIncr(id) ==
    /\ id \in DOMAIN tracks
    /\ tracks[id].pc = "incr"
    /\ rdQueue # << >> /\ Head(rdQueue) = id
    /\ LET t == tracks[id]
           k == StatsKey(AnalyticsKey(t.endpoint, t.tier, t.region), t.allowed)
       IN  rdStore' = MapSet(rdStore, k,
               IF RedisHas(k)
               THEN [count |-> rdStore[k].count + 1, expiresAt |-> rdStore[k].expiresAt]
               ELSE [count |-> 1, expiresAt |-> Infinity])
    /\ rdQueue' = Append(Tail(rdQueue), id)
    /\ tracks' = [tracks EXCEPT ![id].pc = "expire"]
    /\ UNCHANGED <<clock, redisClient, useFallback, fbStore, locks, call, returned,
                   ncalls, nticks, admitted, rejected, inMemoryStats, securityLog,
                   tracked, updated>>

(* The server runs EXPIRE statsKey 3600 (line 223); track logs the         *)
(* security event of a denial (lines 229-231) and is done.                 *)
TrackExpire(id) ==
    /\ id \in DOMAIN tracks
    /\ tracks[id].pc = "expire"
    /\ rdQueue # << >> /\ Head(rdQueue) = id
    /\ LET t == tracks[id]
           k == StatsKey(AnalyticsKey(t.endpoint, t.tier, t.region), t.allowed)
       IN  /\ rdStore' = IF RedisHas(k)
                         THEN [rdStore EXCEPT ![k].expiresAt = clock + StatsTtl]
                         ELSE rdStore
           /\ securityLog' =
                 IF t.allowed THEN securityLog
                 ELSE LogSecurityEvent(securityLog,
                          SecurityEvent(t.userId, t.endpoint, t.timestamp))
    /\ rdQueue' = Tail(rdQueue)
    /\ tracks' = MapDel(tracks, {id})
    /\ UNCHANGED <<clock, redisClient, useFallback, fbStore, locks, call, returned,
                   ncalls, nticks, admitted, rejected, inMemoryStats, tracked,
                   updated>>

(* INCR or EXPIRE throws: the catch of track, lines 232-234, logs the      *)
(* error; the security event of a denial is not logged.                    *)
TrackError(id) ==
    /\ id \in DOMAIN tracks
    /\ rdQueue # << >> /\ Head(rdQueue) = id
    /\ rdQueue' = Tail(rdQueue)
    /\ tracks' = MapDel(tracks, {id})
    /\ UNCHANGED <<clock, redisClient, useFallback, fbStore, locks, rdStore, call,
                   returned, ncalls, nticks, admitted, rejected, inMemoryStats,
                   securityLog, tracked, updated>>

-----------------------------------------------------------------------------
(* Expiry *)

(* InMemoryFallback.cleanup, every 60 s: part_004 lines 84-91 *)
Cleanup ==
    LET expired == {k \in DOMAIN fbStore :
                      fbStore[k].expiresAt # 0 /\ fbStore[k].expiresAt < clock}
    IN  /\ expired # {}
        /\ fbStore' = MapDel(fbStore, expired)
        /\ UNCHANGED <<clock, redisClient, useFallback, locks, rdStore, rdQueue, call,
                       returned, ncalls, nticks, admitted, rejected, analytics, updated>>

(* The server drops a key whose EXPIRE / SETEX time has passed *)
RedisExpire(k) ==
    /\ k \in DOMAIN rdStore
    /\ rdStore[k].expiresAt <= clock
    /\ rdStore' = MapDel(rdStore, {k})
    /\ UNCHANGED <<clock, redisClient, useFallback, fbStore, locks, rdQueue, call,
                   returned, ncalls, nticks, admitted, rejected, analytics, updated>>

-----------------------------------------------------------------------------
(* Specification: any calls, any clock, any connection events *)

Users == {"u1"}
Endpoints == {"/api/checkout", "/api/unknown"}
Tiers == {"free", "unlimited"}
Regions == {"default"}
RequestCosts == {1}

Next ==
    \/ \E p \in Callers, u \in Users, e \in Endpoints, t \in Tiers,
          r \in Regions, rc \in RequestCosts :
            ncalls < MaxCalls /\ CallStart(p, u, e, t, r, rc)
    \/ \E p \in Callers : RedisSsGet(p)
    \/ \E p \in Callers : RedisSsError(p)
    \/ \E p \in Callers : SsResume(p)
    \/ \E p \in Callers : RedisSsSet(p)
    \/ \E p \in Callers : CheckResume(p)
    \/ \E p \in Callers : LockPoll(p)
    \/ \E p \in Callers : FallbackGet(p)
    \/ \E p \in Callers : FallbackSet(p)
    \/ \E p \in Callers : FallbackReturn(p)
    \/ \E p \in Callers : RedisEval(p)
    \/ \E p \in Callers : RedisEvalError(p)
    \/ \E p \in Callers : RedisReturn(p)
    \/ \E id \in DOMAIN tracks : TrackIncr(id)
    \/ \E id \in DOMAIN tracks : TrackExpire(id)
    \/ \E id \in DOMAIN tracks : TrackError(id)
    \/ \E d \in TickSteps : Tick(d)
    \/ \E d \in RegressSteps : Regress(d)
    \/ InitializeConnected
    \/ InitializeFailed
    \/ RedisError
    \/ RedisConnect
    \/ Cleanup
    \/ \E k \in DOMAIN rdStore : RedisExpire(k)

Spec == Init /\ [][Next]_vars

-----------------------------------------------------------------------------
(* Specification: a burst.  One request is repeated by concurrent callers  *)
(* while the clock stands still, on a backend that stays as it is after    *)
(* initialize() and raises no error.                                       *)

Initialized ==
    \/ redisClient = [client |-> TRUE, isConnected |-> TRUE] /\ useFallback = FALSE
    \/ redisClient = [client |-> FALSE, isConnected |-> FALSE] /\ useFallback = TRUE

InitInitialized ==
    /\ clock = ClockStart
    /\ Initialized
    /\ fbStore = << >>
    /\ locks = {}
    /\ rdStore = << >>
    /\ rdQueue = << >>
    /\ call = [p \in Callers |-> IdleCall]
    /\ returned = IdleCall
    /\ ncalls = 0
    /\ nticks = 0
    /\ admitted = 0
    /\ rejected = 0
    /\ inMemoryStats = [hits |-> << >>, blocks |-> << >>]
    /\ securityLog = << >>
    /\ tracks = << >>
    /\ tracked = << >>
    /\ updated = NoUpdate

(* Every call made so far had these arguments. *)
SameRequest(u, e, t, r, rc) ==
    LET same(c) == /\ c.userId = u /\ c.endpoint = e /\ c.tier = t
                   /\ c.region = r /\ c.requestCost = rc
    IN  /\ returned.pc = "returned" => same(returned)
        /\ \A q \in Callers : call[q].pc # "idle" => same(call[q])

(* The capacity of a fresh bucket of a new principal, and the cost *)
FreshCapacity(e, t, r) == TotalCapacity(LIMITS.endpoints[e], t, r, StartMultiplier)
RequestCost(e, rc) == Cost(LIMITS.endpoints[e], rc)

(* The steps of the calls in progress *)
CallSteps ==
    \/ \E p \in Callers : RedisSsGet(p)
    \/ \E p \in Callers : SsResume(p)
    \/ \E p \in Callers : RedisSsSet(p)
    \/ \E p \in Callers : CheckResume(p)
    \/ \E p \in Callers : LockPoll(p)
    \/ \E p \in Callers : FallbackGet(p)
    \/ \E p \in Callers : FallbackSet(p)
    \/ \E p \in Callers : FallbackReturn(p)
    \/ \E p \in Callers : RedisEval(p)
    \/ \E p \in Callers : RedisReturn(p)
    \/ \E id \in DOMAIN tracks : TrackIncr(id)
    \/ \E id \in DOMAIN tracks : TrackExpire(id)

BurstRequests ==
    { <<"u1", "/api/checkout", "free", "default", 1>>,
      <<"u1", "/api/profile", "free", "ap-south", 1>>,
      <<"u1", "/api/search", "free", "default", 35>> }

NextBurst ==
    \/ \E p \in Callers, q \in BurstRequests :
          /\ SameRequest(q[1], q[2], q[3], q[4], q[5])
          /\ ncalls < FreshCapacity(q[2], q[3], q[4]) \div RequestCost(q[2], q[5])
                        + BurstExtra
          /\ CallStart(p, q[1], q[2], q[3], q[4], q[5])
    \/ CallSteps

SpecBurst == InitInitialized /\ [][NextBurst]_vars

-----------------------------------------------------------------------------
(* Specification: consecutive checks.  One request is repeated, each check *)
(* after the one before has returned, while the clock stands still, until  *)
(* a check is denied.                                                      *)

SeqEndpoints == DOMAIN LIMITS.endpoints
SeqTiers == {"free", "premium", "gold"}
SeqRegions == {"default", "eu-west", "ap-south"}
SeqRequestCosts == {1, 2, 7}

NextSeq ==
    \/ \E p \in Callers, e \in SeqEndpoints, t \in SeqTiers, r \in SeqRegions,
          rc \in SeqRequestCosts :
          /\ SameRequest("u1", e, t, r, rc)
          /\ \A q \in Callers : call[q].pc = "idle"
          /\ rejected < SeqDenials
          /\ CallStart(p, "u1", e, t, r, rc)
    \/ \E p \in Callers : RedisSsGet(p)
    \/ \E p \in Callers : SsResume(p)
    \/ \E p \in Callers : RedisSsSet(p)
    \/ \E p \in Callers : CheckResume(p)
    \/ \E p \in Callers : FallbackGet(p)
    \/ \E p \in Callers : FallbackSet(p)
    \/ \E p \in Callers : FallbackReturn(p)
    \/ \E p \in Callers : RedisEval(p)
    \/ \E p \in Callers : RedisReturn(p)
    \/ \E id \in DOMAIN tracks : TrackIncr(id)
    \/ \E id \in DOMAIN tracks : TrackExpire(id)

SpecSeq == InitInitialized /\ [][NextSeq]_vars

-----------------------------------------------------------------------------
(* Properties *)

InFlight == {p \in Callers : call[p].pc # "idle"}

BucketKeys(store) == {k \in DOMAIN store : k[1] = "ratelimit"}

WindowOf(c) == LIMITS.endpoints[c.endpoint].window

(* A call that has run its check-and-consume and holds its outcome *)
Checked(c) == c.pc \in {"bucket_written", "redis_replied"}

(* C1 (SpecBurst): when one request of cost 1 is fired by concurrent       *)
(* callers at a fresh bucket of capacity C while no time passes, at most C *)
(* calls return allowed = true; for a request of cost c, at most           *)
(* floor(C / c).                                                           *)
C1_BurstAdmitsAtMostCapacity ==
    returned.pc = "returned" =>
        /\ admitted * returned.cost <= returned.capacity
        /\ returned.cost = 1 => admitted <= returned.capacity

(* More cost-1 calls than the capacity have been made, the capacity was    *)
(* admitted and the rest denied, a call having waited for the lock or      *)
(* queued behind another.                                                  *)
C1_Witness ==
    /\ returned.pc = "returned" /\ returned.cost = 1
    /\ ncalls > returned.capacity
    /\ admitted = returned.capacity
    /\ rejected >= 1
    /\ InFlight # {}

(* C2 (Spec): for every key, at most one call at a time is between its     *)
(* read of the bucket and its write of it.                                 *)
C2_OneCallBetweenReadAndWrite ==
    \A p, q \in Callers :
        /\ call[p].pc = "bucket_read" /\ call[q].pc = "bucket_read"
        /\ KeyOf(call[p]) = KeyOf(call[q])
        => p = q

(* One call has read the bucket while another waits for the same key. *)
C2_Witness ==
    \E p, q \in Callers :
        /\ call[p].pc = "bucket_read" /\ call[q].pc = "lock_wait"
        /\ KeyOf(call[p]) = KeyOf(call[q])

(* C3 (Spec): whenever a check writes a bucket, the token count it stores  *)
(* lies between 0 and the capacity the check was given.                    *)
C3_TokensWithinCapacity ==
    [][\A p \in Callers :
        /\ (call[p].pc = "bucket_read" /\ call'[p].pc = "bucket_written")
            => /\ fbStore'[KeyOf(call[p])].tokens >= 0
               /\ fbStore'[KeyOf(call[p])].tokens <= call[p].capacity * TokenScale
        /\ (call[p].pc = "redis_eval" /\ call'[p].pc = "redis_replied")
            => /\ rdStore'[KeyOf(call[p])].tokens >= 0
               /\ rdStore'[KeyOf(call[p])].tokens <= call[p].capacity * TokenScale
      ]_vars

(* C4 (SpecSeq): from a fresh bucket of capacity C, with every check       *)
(* costing c and no time passing, the first floor(C / c) checks are        *)
(* admitted and the next one is denied with retryAfter > 0.                *)
C4_FloorAdmittedThenDenied ==
    returned.pc = "returned" =>
        /\ admitted = Min(admitted + rejected, returned.capacity \div returned.cost)
        /\ ~returned.result.allowed => returned.result.retryAfter > 0

(* Several checks were admitted and then one was denied. *)
C4_Witness ==
    /\ returned.pc = "returned"
    /\ ~returned.result.allowed
    /\ rejected = 1
    /\ admitted = returned.capacity \div returned.cost
    /\ admitted >= 2

(* C5 (Spec): a check that finds a bucket holding tokens_before, written   *)
(* t >= 0 seconds before the check's timestamp, evaluates                  *)
(* min(capacity, tokens_before + t * rate) tokens before it subtracts its  *)
(* cost.                                                                   *)
C5_RefillAfterWaiting ==
    \A p \in Callers :
        LET c == call[p]
            t == c.now - c.bucket.lastRefill
        IN  (Checked(c) /\ c.bucket.present /\ t >= 0) =>
                c.refilled = Min(c.capacity * TokenScale,
                                 c.bucket.tokens
                                   + (t * c.maxTokens * TokenScale) \div WindowOf(c))

(* A check found a bucket written earlier and refilled it without reaching *)
(* the capacity.                                                           *)
C5_Witness ==
    \E p \in Callers :
        LET c == call[p]
        IN  /\ Checked(c) /\ c.bucket.present
            /\ c.now > c.bucket.lastRefill
            /\ c.refilled > c.bucket.tokens
            /\ c.refilled < c.capacity * TokenScale

(* C6 (Spec): a check whose timestamp is earlier than the bucket's         *)
(* lastRefill takes the elapsed time as zero: it evaluates the stored      *)
(* token count (capped at its capacity), never less.                       *)
C6_RegressionClamped ==
    \A p \in Callers :
        LET c == call[p]
        IN  (Checked(c) /\ c.bucket.present /\ c.now < c.bucket.lastRefill) =>
                c.refilled = Min(c.capacity * TokenScale, c.bucket.tokens)

(* C7 (Spec): a key's stored lastRefill never decreases from one write of  *)
(* the bucket to the next.                                                 *)
C7_LastRefillNonDecreasing ==
    [][/\ \A k \in BucketKeys(fbStore) \cap BucketKeys(fbStore') :
            fbStore'[k].lastRefill >= fbStore[k].lastRefill
       /\ \A k \in BucketKeys(rdStore) \cap BucketKeys(rdStore') :
            rdStore'[k].lastRefill >= rdStore[k].lastRefill
      ]_vars

(* The call that a step starts with the given tier or endpoint returns in  *)
(* that step with the given result and the step changes no store, lock,    *)
(* queued command or call in progress.                                     *)
StoresUntouched ==
    /\ fbStore' = fbStore /\ rdStore' = rdStore /\ rdQueue' = rdQueue
    /\ locks' = locks

(* The arguments of the call a step starts *)
StartedCalls ==
    {call'[p] : p \in {q \in Callers : call[q].pc = "idle" /\ call'[q].pc # "idle"}}
        \cup (IF call' = call THEN {returned'} ELSE {})

(* C8 (Spec): a call with tier 'unlimited' returns                         *)
(* {allowed: true, remaining: Infinity, retryAfter: 0} and touches no      *)
(* store: buckets, slow-start records, locks and pending Redis commands    *)
(* are as before, for every principal and endpoint.                        *)
C8_UnlimitedBypassesStore ==
    [][(ncalls' = ncalls + 1 /\ \E c \in StartedCalls : c.tier = "unlimited") =>
         /\ call' = call
         /\ returned'.pc = "returned"
         /\ returned'.result =
               [allowed |-> TRUE, remaining |-> Infinity, retryAfter |-> 0]
         /\ StoresUntouched
      ]_vars

(* An unlimited call has returned, after an earlier check left a bucket    *)
(* and a slow-start record behind, and for an endpoint without quota too.  *)
C8_Witness ==
    /\ returned.pc = "returned" /\ returned.tier = "unlimited"
    /\ returned.path = "unlimited"
    /\ DOMAIN fbStore \cup DOMAIN rdStore # {}
    /\ admitted >= 2

C10_StoreErrorFailsOpenAtCapacity ==
    (returned.pc = "returned" /\ returned.path = "error") =>
        returned.result =
            [allowed |-> TRUE, remaining |-> returned.capacity, retryAfter |-> 0]

-----------------------------------------------------------------------------
(* C11: when a Shared Backend operation of a checkRateLimit call fails     *)
(* (redis.eval throws), the call is re-routed to the Local Fallback: its   *)
(* decision is the fallback's check-and-consume result for the key, and    *)
(* the call reads and updates the key's fallback bucket.                   *)
C11_StoreErrorReroutedToFallback ==
    [][\A p \in Callers :
         (call[p].pc = "redis_eval" /\ call'[p].pc = "idle") =>
            LET c == call[p]
                key == KeyOf(c)
                r == ProcessFallbackMath(FallbackGetBucket(key), c.now, c.capacity,
                                         RefillRate(c.maxTokens, WindowOf(c)), c.cost)
            IN  /\ returned'.result = [allowed |-> r.allowed,
                                       remaining |-> r.remaining,
                                       retryAfter |-> r.retryAfter]
                /\ key \in DOMAIN fbStore'
                /\ fbStore'[key].tokens = r.tokens
                /\ fbStore'[key].lastRefill = r.lastRefill]_vars

-----------------------------------------------------------------------------
(* Specification: initialize() is called again.  Nothing keeps             *)
(* initialize() from being called more than once (the test suites call it  *)
(* in every beforeAll, tests/rateLimiter.test.js lines 6, 123, 148); each  *)
(* call makes a new client, and sets useFallback when connecting fails.    *)

(* initialize() again, RedisClient.connect() succeeding: lines 13-18 leave *)
(* useFallback as it is.                                                   *)
ReinitializeConnected ==
    /\ Initialized \/ redisClient.client
    /\ redisClient' = [client |-> TRUE, isConnected |-> TRUE]
    /\ UNCHANGED <<clock, useFallback, fbStore, locks, rdStore, rdQueue, call,
                   returned, ncalls, nticks, admitted, rejected, analytics, updated>>

(* initialize() again, RedisClient.connect() failing *)
ReinitializeFailed ==
    /\ Initialized \/ redisClient.client
    /\ redisClient' = [client |-> FALSE, isConnected |-> FALSE]
    /\ useFallback' = TRUE
    /\ UNCHANGED <<clock, fbStore, locks, rdStore, rdQueue, call,
                   returned, ncalls, nticks, admitted, rejected, analytics, updated>>

RetryRequests == { <<"u1", "/api/checkout", "free", "default", 1>> }

NextRetry ==
    \/ \E p \in Callers, q \in RetryRequests :
          ncalls < MaxCalls /\ CallStart(p, q[1], q[2], q[3], q[4], q[5])
    \/ CallSteps
    \/ ReinitializeConnected
    \/ ReinitializeFailed
    \/ RedisError
    \/ RedisConnect

SpecRetry == InitInitialized /\ [][NextRetry]_vars

(* C12: the backend is selected afresh on every call from the backend's    *)
(* health: the check-and-consume of a call goes to the Shared Backend if   *)
(* and only if isHealthy() holds when the call selects, a command is sent  *)
(* to the Shared Backend only when it is healthy, and an earlier failed    *)
(* initialize() does not keep a call on the fallback when the backend      *)
(* reports healthy.                                                        *)
C12_BackendSelectedByHealth ==
    [][/\ \A p \in Callers :
            (call[p].pc = "ss_done" /\ call'[p].pc # "ss_done") =>
                (call'[p].pc = "redis_eval" <=> IsHealthy)
       /\ Len(rdQueue') > Len(rdQueue) => IsHealthy]_vars

-----------------------------------------------------------------------------
(* Specification: waiting for the lock.  Calls on the Local Fallback (Redis *)
(* was down at initialize()), the clock standing still.  Besides           *)
(* processFallback, withLock may be given a function that never settles:   *)
(* its lock is then never released.  The event loop runs every timer and   *)
(* continuation that is ready, so every step of every call is fair.        *)

InitFallback ==
    /\ InitInitialized
    /\ useFallback = TRUE

StallRequests ==
    { <<"u1", "/api/checkout", "free", "default", 1>>,
      <<"u1", "/api/profile", "free", "default", 1>>,
      <<"u2", "/api/checkout", "free", "default", 1>> }

(* fallback.withLock(key, fn) with an fn that never settles: acquireLock   *)
(* takes the free lock (part_004 lines 68-72), and the finally of withLock *)
(* (lines 79-81) is never reached.                                         *)
WithLockNeverSettles(key) ==
    /\ ~LockHeld(key)
    /\ locks' = LockTaken(key)
    /\ UNCHANGED <<clock, redisClient, useFallback, fbStore, rdStore, rdQueue, call,
                   returned, ncalls, nticks, admitted, rejected, analytics, updated>>

(* The steps of call p on the fallback *)
FallbackSteps(p) ==
    \/ SsResume(p)
    \/ CheckResume(p)
    \/ LockPoll(p)
    \/ FallbackGet(p)
    \/ FallbackSet(p)
    \/ FallbackReturn(p)

NextStall ==
    \/ \E p \in Callers, q \in StallRequests :
          ncalls < MaxCalls + 1 /\ CallStart(p, q[1], q[2], q[3], q[4], q[5])
    \/ \E p \in Callers : FallbackSteps(p)
    \/ \E q \in StallRequests : WithLockNeverSettles(BucketKey(q[1], q[2]))

SpecStall ==
    /\ InitFallback
    /\ [][NextStall]_vars
    /\ \A p \in Callers : WF_vars(FallbackSteps(p))

(* C13: lock acquisition is bounded.  A call that waits for the lock of    *)
(* its key stops waiting, also when the holder does not release the lock:  *)
(* it then returns a fail-open decision.                                   *)
C13_WaiterStopsWaiting ==
    \A p \in Callers : (call[p].pc = "lock_wait") ~> (call[p].pc # "lock_wait")

-----------------------------------------------------------------------------
(* Specification: the limits of a call.  One request, of any endpoint,     *)
(* tier and region, is made and, some time later, made again, so that the  *)
(* second call finds the principal at a later point of its slow start.     *)

LimitEndpoints == DOMAIN LIMITS.endpoints
LimitTiers == DOMAIN LIMITS.tiers \cup {"gold"}
LimitRegions == DOMAIN LIMITS.regions \cup {"mars"}
LimitRequestCosts == {1, 3}
LimitSteps == {77, 300}

NextLimits ==
    \/ \E p \in Callers, e \in LimitEndpoints, t \in LimitTiers, r \in LimitRegions,
          rc \in LimitRequestCosts :
          /\ SameRequest("u1", e, t, r, rc)
          /\ \A q \in Callers : call[q].pc = "idle"
          /\ ncalls < MaxCalls
          /\ CallStart(p, "u1", e, t, r, rc)
    \/ \E p \in Callers : RedisSsGet(p)
    \/ \E p \in Callers : SsResume(p)
    \/ \E p \in Callers : RedisSsSet(p)
    \/ \E p \in Callers : CheckResume(p)
    \/ \E p \in Callers : FallbackGet(p)
    \/ \E p \in Callers : FallbackSet(p)
    \/ \E p \in Callers : FallbackReturn(p)
    \/ \E p \in Callers : RedisEval(p)
    \/ \E p \in Callers : RedisReturn(p)
    \/ \E id \in DOMAIN tracks : TrackIncr(id)
    \/ \E id \in DOMAIN tracks : TrackExpire(id)
    \/ \E d \in LimitSteps : Tick(d)
    \/ Cleanup
    \/ \E k \in DOMAIN rdStore : RedisExpire(k)

SpecLimits == InitInitialized /\ [][NextLimits]_vars

(* A call that has computed its limits (lines 39-48) *)
HasLimits(c) ==
    c.pc \in {"lock_wait", "locked", "bucket_read", "bucket_written",
              "redis_eval", "redis_replied"}
    \/ (c.pc = "returned" /\ c.path \in {"fallback", "redis", "error"})

CallsWithLimits ==
    {call[p] : p \in {q \in Callers : HasLimits(call[q])}}
        \cup (IF HasLimits(returned) THEN {returned} ELSE {})

C15_RateFromUnscaledBase ==
    \A c \in CallsWithLimits :
        LET cfg == LIMITS.endpoints[c.endpoint]
        IN  RefillRate(c.maxTokens, cfg.window) * cfg.window
                = cfg.requests * TokenScale

(* C16: the cost of a check is the endpoint's configured cost times the    *)
(* caller's requestCost; an admitted check stores the refilled token count *)
(* less exactly that cost; and of two consecutive admitted checks of a key *)
(* with no time between them, the second reports a remaining lower by      *)
(* exactly the cost.                                                       *)
C16_CostCharged ==
    [][/\ \A p \in Callers :
            (Checked(call'[p]) /\ ~Checked(call[p])) =>
                LET c == call'[p]
                    cost == LIMITS.endpoints[c.endpoint].cost * c.requestCost
                IN  /\ c.cost = cost
                    /\ c.result.allowed =>
                          (IF c.pc = "bucket_written" THEN fbStore' ELSE rdStore')
                              [KeyOf(c)].tokens = c.refilled - cost * TokenScale
       /\ ( /\ admitted' = admitted + 1
            /\ returned.pc = "returned" /\ returned.result.allowed
            /\ KeyOf(returned') = KeyOf(returned)
            /\ returned'.now = returned.now )
          => returned.result.remaining - returned'.result.remaining
                = LIMITS.endpoints[returned'.endpoint].cost * returned'.requestCost
      ]_vars

(* Two consecutive checks of cost 7 have been admitted. *)
C16_Witness ==
    /\ returned.pc = "returned"
    /\ returned.result.allowed
    /\ admitted = 2
    /\ returned.endpoint = "/api/profile"
    /\ returned.requestCost = 7
    /\ returned.cost = 7
    /\ returned.result.remaining = returned.capacity - 14

-----------------------------------------------------------------------------
(* Specification: the checkout scenario.  One principal checks             *)
(* /api/checkout (tier free, region default, request cost 1) again and     *)
(* again, each check after the one before has returned; the slow-start     *)
(* duration may pass once, and expired entries are dropped.                *)

ScenarioCalls == 4
ScenarioSteps == {LIMITS.slowStart.durationSeconds}

NextScenario ==
    \/ \E p \in Callers :
          /\ \A q \in Callers : call[q].pc = "idle"
          /\ ncalls < ScenarioCalls
          /\ CallStart(p, "u1", "/api/checkout", "free", "default", 1)
    \/ \E p \in Callers : RedisSsGet(p)
    \/ \E p \in Callers : SsResume(p)
    \/ \E p \in Callers : RedisSsSet(p)
    \/ \E p \in Callers : CheckResume(p)
    \/ \E p \in Callers : FallbackGet(p)
    \/ \E p \in Callers : FallbackSet(p)
    \/ \E p \in Callers : FallbackReturn(p)
    \/ \E p \in Callers : RedisEval(p)
    \/ \E p \in Callers : RedisReturn(p)
    \/ \E id \in DOMAIN tracks : TrackIncr(id)
    \/ \E id \in DOMAIN tracks : TrackExpire(id)
    \/ \E d \in ScenarioSteps : Tick(d)
    \/ Cleanup
    \/ \E k \in DOMAIN rdStore : RedisExpire(k)

SpecScenario == InitInitialized /\ [][NextScenario]_vars

(* The scenario's three checks, for a checked call c of /api/checkout:     *)
(* on a fresh key, capacity 12, rate 10/60 and remaining 7; on the bucket  *)
(* that check leaves, at the same instant, remaining 2; on the bucket that *)
(* one leaves, at the same instant, denied with retryAfter 18.             *)
ScenarioHolds(c) ==
    LET instant(tokens) == /\ c.bucket.present
                           /\ c.bucket.tokens = tokens * TokenScale
                           /\ c.bucket.lastRefill = c.now
    IN  /\ ~c.bucket.present =>
              /\ c.capacity = 12
              /\ RefillRate(c.maxTokens, WindowOf(c)) * 60 = 10 * TokenScale
              /\ c.refilled = 12 * TokenScale
              /\ c.result = [allowed |-> TRUE, remaining |-> 7, retryAfter |-> 0]
        /\ instant(7) =>
              c.result = [allowed |-> TRUE, remaining |-> 2, retryAfter |-> 0]
        /\ instant(2) =>
              c.result = [allowed |-> FALSE, remaining |-> 2, retryAfter |-> 18]

-----------------------------------------------------------------------------
(* C18: the first check ever made for a key (there is no stored bucket)    *)
(* runs against tokens = capacity, the scaled base plus the burst, and     *)
(* stores lastRefill = now; when its cost is at most the capacity it is    *)
(* admitted with remaining = capacity - cost.                              *)
C18_FirstCheckStartsFull ==
    [][\A p \in Callers :
         (Checked(call'[p]) /\ ~Checked(call[p]) /\ ~call'[p].bucket.present) =>
            LET c == call'[p]
                cfg == LIMITS.endpoints[c.endpoint]
                capacity == c.maxTokens + cfg.burst * TierMultiplier(c.tier)
                stored == (IF c.pc = "bucket_written" THEN fbStore' ELSE rdStore')
                              [KeyOf(c)]
            IN  /\ c.refilled = capacity * TokenScale
                /\ stored.lastRefill = c.now
                /\ c.cost <= capacity =>
                      /\ c.result = [allowed |-> TRUE,
                                     remaining |-> capacity - c.cost,
                                     retryAfter |-> 0]
                      /\ stored.tokens = (capacity - c.cost) * TokenScale
      ]_vars

(* A first check has been admitted at a capacity that includes the burst.  *)
C18_Witness ==
    /\ returned.pc = "returned"
    /\ ~returned.bucket.present
    /\ admitted = 1 /\ rejected = 0
    /\ returned.endpoint = "/api/search"
    /\ returned.tier = "premium"
    /\ returned.region = "eu-west"
    /\ returned.requestCost = 2
    /\ returned.capacity = 180
    /\ returned.result.allowed
    /\ returned.result.remaining = 178

-----------------------------------------------------------------------------
(* Specification: tier and region identifiers.  Calls on the Local         *)
(* Fallback whose tier and region are names of the tables, names unknown   *)
(* to them, or names every object inherits (the middleware passes the      *)
(* x-user-tier and x-user-region headers as they come, part_004 lines      *)
(* 6-7).                                                                   *)

NameTiers == {"free", "gold"} \cup ObjectPrototype
NameRegions == {"default", "mars"} \cup ObjectPrototype

NextNames ==
    \/ \E p \in Callers, t \in NameTiers, r \in NameRegions :
          ncalls < MaxCalls /\ CallStart(p, "u1", "/api/checkout", t, r, 1)
    \/ \E p \in Callers : SsResume(p)
    \/ \E p \in Callers : CheckResume(p)
    \/ \E p \in Callers : LockPoll(p)
    \/ \E p \in Callers : FallbackGet(p)
    \/ \E p \in Callers : FallbackSet(p)
    \/ \E p \in Callers : FallbackReturn(p)

SpecNames == InitFallback /\ [][NextNames]_vars

(* C19: a tier that is not in the tier table and a region that is not in   *)
(* the region table count as multiplier 1: the call has the decision and   *)
(* leaves the bucket that the same call with tier free (x1) and region     *)
(* default (x1) in their place would, and is not rejected on account of    *)
(* the name.                                                               *)
C19_UnknownNamesCountAsOne ==
    [][\A p \in Callers :
         (Checked(call'[p]) /\ ~Checked(call[p])) =>
            LET c == call'[p]
                cfg == LIMITS.endpoints[c.endpoint]
                tier == IF c.tier \in DOMAIN LIMITS.tiers THEN c.tier ELSE "free"
                region == IF c.region \in DOMAIN LIMITS.regions
                          THEN c.region ELSE "default"
                r == ProcessFallbackMath(c.bucket, c.now,
                        TotalCapacity(cfg, tier, region, c.ssMult),
                        RefillRate(MaxTokens(cfg, tier, region, c.ssMult), cfg.window),
                        c.cost)
            IN  /\ c.result = [allowed |-> r.allowed, remaining |-> r.remaining,
                               retryAfter |-> r.retryAfter]
                /\ fbStore'[KeyOf(c)].tokens = r.tokens
                /\ fbStore'[KeyOf(c)].lastRefill = r.lastRefill
      ]_vars

-----------------------------------------------------------------------------
(* Specification: several keys.  Concurrent calls of two principals on two *)
(* endpoints, on either backend, the clock standing still.                 *)

KeysRequests ==
    { <<"u1", "/api/checkout", "free", "default", 1>>,
      <<"u2", "/api/checkout", "free", "default", 1>>,
      <<"u1", "/api/profile", "free", "default", 1>> }

NextKeys ==
    \/ \E p \in Callers, q \in KeysRequests :
          ncalls < MaxCalls + 1 /\ CallStart(p, q[1], q[2], q[3], q[4], q[5])
    \/ CallSteps

SpecKeys == InitInitialized /\ [][NextKeys]_vars

(* The entry of key k differs between the stores s and t. *)
EntryChanged(s, t, k) ==
    \/ (k \in DOMAIN s) # (k \in DOMAIN t)
    \/ k \in DOMAIN s /\ k \in DOMAIN t /\ s[k] # t[k]

(* The calls holding the lock of a key *)
LockHolders(k) ==
    {q \in Callers : /\ call[q].pc \in {"locked", "bucket_read", "bucket_written"}
                     /\ <<"ratelimit", call[q].userId, call[q].endpoint>> = k}

(* C20: a check on key K changes no entry but K's bucket and its           *)
(* principal's slow-start record; it waits for a lock only when the lock   *)
(* of K itself is held, by a call on K; and a first check of a key is      *)
(* admitted whatever other principals' calls are doing.                    *)
C20_KeysIndependent ==
    [][\A p \in Callers :
         call'[p] # call[p] =>
            LET c == IF call[p].pc = "idle" THEN call'[p] ELSE call[p]
                K == <<"ratelimit", c.userId, c.endpoint>>
                S == <<"slowstart", c.userId>>
            IN  /\ \A k \in DOMAIN fbStore \cup DOMAIN fbStore' :
                      EntryChanged(fbStore, fbStore', k) => k \in {K, S}
                /\ \A k \in DOMAIN rdStore \cup DOMAIN rdStore' :
                      EntryChanged(rdStore, rdStore', k) => k \in {K, S}
                /\ (call'[p].pc = "lock_wait" /\ call[p].pc # "lock_wait") =>
                      /\ K \in locks
                      /\ LockHolders(K) \ {p} # {}
                /\ (Checked(call'[p]) /\ ~Checked(call[p])
                      /\ ~call'[p].bucket.present) => call'[p].result.allowed
      ]_vars

(* The first checks of two principals have both been inside their locks at *)
(* once, and both are admitted.                                            *)
C20_Witness ==
    /\ call[1].pc = "bucket_written" /\ call[2].pc = "bucket_written"
    /\ call[1].userId # call[2].userId
    /\ call[1].endpoint = call[2].endpoint
    /\ ~call[1].bucket.present /\ ~call[2].bucket.present
    /\ call[1].result.allowed /\ call[2].result.allowed
    /\ Cardinality(locks) = 2

-----------------------------------------------------------------------------
(* A call that holds the multiplier getSlowStartMultiplier returned *)
HasMultiplier(c) == c.pc = "ss_done" \/ HasLimits(c)

(* C21: every value getSlowStartMultiplier returns lies between            *)
(* startMultiplier and 1.0, whatever the stored first-seen time and the    *)
(* clock (a clock that reads earlier than the first-seen time included),   *)
(* and under races of concurrent first observations.                       *)
C21_MultiplierInRange ==
    \A c \in {call[p] : p \in Callers} \cup {returned} :
        HasMultiplier(c) =>
            /\ c.ssMult >= StartMultiplier
            /\ c.ssMult <= FullMultiplier

-----------------------------------------------------------------------------
(* Specification: the slow-start ramp.  One principal checks an endpoint   *)
(* of cost 1, each check after the one before has returned; the slow-start *)
(* duration, or a cleanup period more, may pass; expired entries are       *)
(* dropped.                                                                *)

RampEndpoints == {"/api/search", "/api/profile"}
RampSteps == {LIMITS.slowStart.durationSeconds, LIMITS.slowStart.durationSeconds + 60}

NextRamp ==
    \/ \E p \in Callers, e \in RampEndpoints :
          /\ \A q \in Callers : call[q].pc = "idle"
          /\ ncalls < MaxCalls
          /\ CallStart(p, "u1", e, "free", "default", 1)
    \/ \E p \in Callers : RedisSsGet(p)
    \/ \E p \in Callers : SsResume(p)
    \/ \E p \in Callers : RedisSsSet(p)
    \/ \E p \in Callers : CheckResume(p)
    \/ \E p \in Callers : FallbackGet(p)
    \/ \E p \in Callers : FallbackSet(p)
    \/ \E p \in Callers : FallbackReturn(p)
    \/ \E p \in Callers : RedisEval(p)
    \/ \E p \in Callers : RedisReturn(p)
    \/ \E id \in DOMAIN tracks : TrackIncr(id)
    \/ \E id \in DOMAIN tracks : TrackExpire(id)
    \/ \E d \in RampSteps : Tick(d)
    \/ Cleanup
    \/ \E k \in DOMAIN rdStore : RedisExpire(k)

SpecRamp == InitInitialized /\ [][NextRamp]_vars

(* C22: the first check of a brand-new principal uses startMultiplier, and *)
(* its remaining is below the endpoint's requests and above                *)
(* requests * startMultiplier - 1; every check made when durationSeconds   *)
(* or more have passed since the principal was first observed uses 1.0.    *)
(* (returned.ssNow > 0: the call before this one observed the principal    *)
(* for the first time, at ssNow.)                                          *)
C22_SlowStartRamp ==
    [][\A p \in Callers :
         LET ss == LIMITS.slowStart
         IN  /\ (call'[p].pc = "ss_done" /\ call[p].pc # "ss_done" /\ ncalls' = 1) =>
                    call'[p].ssMult * ss.startDen = FullMultiplier * ss.startNum
             /\ (call[p].pc # "idle" /\ call'[p].pc = "idle" /\ ncalls = 1) =>
                    LET requests == LIMITS.endpoints[returned'.endpoint].requests
                    IN  /\ returned'.result.remaining < requests
                        /\ returned'.result.remaining * ss.startDen
                              > requests * ss.startNum - ss.startDen
             /\ ( /\ call[p].pc = "ss_got" /\ call'[p].pc # "ss_got"
                  /\ returned.pc = "returned"
                  /\ returned.userId = call[p].userId
                  /\ returned.ssNow > 0
                  /\ clock - returned.ssNow >= ss.durationSeconds )
                => /\ call'[p].pc = "ss_done"
                   /\ call'[p].ssMult = FullMultiplier
      ]_vars

-----------------------------------------------------------------------------
(* updateConfig(newLimits), lines 194-200 *)

(* The arguments: an object or none; each section a table, null or absent. *)
Sections == {"table", "null", "absent"}
NewLimitsInputs == [object : BOOLEAN, endpoints : Sections, tiers : Sections]

(* The tables of a newLimits whose sections are tables                     *)
NewConfig ==
    [endpoints |->
        ( "/api/test" :> [requests |-> 50, window |-> 60, burst |-> 10, cost |-> 1] ),
     tiers |-> ( "free" :> 1 @@ "premium" :> 5 )]

(* JavaScript's truth of a section *)
Truthy(section) == section = "table"

(* Reading newLimits.endpoints of no object throws; with both sections     *)
(* truthy the keys are logged and true returned, otherwise false.  Nothing *)
(* is assigned.                                                            *)
UpdateConfigOutcome(newLimits) ==
    IF ~newLimits.object THEN "throws"
    ELSE IF Truthy(newLimits.endpoints) /\ Truthy(newLimits.tiers) THEN "true"
    ELSE "false"

UpdateConfig(newLimits) ==
    /\ updated' = [newLimits |-> newLimits, outcome |-> UpdateConfigOutcome(newLimits)]
    /\ UNCHANGED <<clock, redisClient, useFallback, fbStore, locks, rdStore, rdQueue,
                   call, returned, ncalls, nticks, admitted, rejected, analytics>>

-----------------------------------------------------------------------------
(* Specification: configuration updates.  updateConfig is called with      *)
(* every kind of argument between checks of an endpoint of the new tables  *)
(* and of an endpoint of the old ones.                                     *)

ConfigRequests ==
    { <<"u1", "/api/test", "free", "default", 1>>,
      <<"u1", "/api/search", "free", "default", 1>>,
      <<"u2", "/api/test", "premium", "default", 1>> }

NextConfig ==
    \/ \E n \in NewLimitsInputs : UpdateConfig(n)
    \/ \E p \in Callers, q \in ConfigRequests :
          ncalls < MaxCalls + 1 /\ CallStart(p, q[1], q[2], q[3], q[4], q[5])
    \/ CallSteps

SpecConfig == InitInitialized /\ [][NextConfig]_vars

(* C23: once updateConfig has returned true for a newConfig with endpoints *)
(* and tiers, a check that starts looks its endpoint up in newConfig's     *)
(* table: it goes on to the bucket when newConfig has a quota for the      *)
(* endpoint and leaves as an unknown endpoint when it has none.            *)
C23_AcceptedConfigInUse ==
    [][ (updated.outcome = "true" /\ ncalls' = ncalls + 1)
        => \/ \E p \in Callers :
                /\ call[p].pc = "idle" /\ call'[p].pc # "idle"
                /\ call'[p].endpoint \in DOMAIN NewConfig.endpoints
           \/ /\ \A p \in Callers : call'[p] = call[p]
              /\ returned'.path = "unknown"
              /\ returned'.endpoint \notin DOMAIN NewConfig.endpoints
      ]_vars

(* The argument is malformed: no object, or a section that is no table.    *)
Malformed(newLimits) ==
    \/ ~newLimits.object
    \/ ~Truthy(newLimits.endpoints)
    \/ ~Truthy(newLimits.tiers)

(* C24: updateConfig called with a malformed argument returns false and    *)
(* does not throw.                                                         *)
C24_MalformedConfigRejected ==
    (updated.outcome # "none" /\ Malformed(updated.newLimits)) => updated.outcome = "false"

(* C25 (Spec): every Decision returned by checkRateLimit has remaining >= 0 *)
(* (Infinity counting as such) and retryAfter >= 0, and an admitted         *)
(* Decision has retryAfter = 0.  (NaN >= 0 is false.)                       *)
C25_DecisionInRange ==
    returned.pc = "returned" =>
        /\ ~IsNaN(returned.result.remaining) /\ returned.result.remaining >= 0
        /\ ~IsNaN(returned.result.retryAfter) /\ returned.result.retryAfter >= 0
        /\ returned.result.allowed => returned.result.retryAfter = 0

(* A call returns to its caller in this step. *)
CallReturns == admitted' + rejected' = admitted + rejected + 1

(* C26 (Spec): a check that returns after the early exits (its tier is not *)
(* unlimited and its endpoint has a quota) calls analytics.track exactly   *)
(* once, with its own arguments and the allowed value it returns, also     *)
(* when it returns the fail-open Decision made after a store error; and    *)
(* track is called by nothing else.                                        *)
C26_OutcomeTrackedOnce ==
    [][ /\ (CallReturns /\ returned'.path \notin {"unlimited", "unknown"})
            => /\ Len(tracked') = Len(tracked) + 1
               /\ LET t == tracked'[Len(tracked')]
                  IN  /\ t.userId = returned'.userId
                      /\ t.endpoint = returned'.endpoint
                      /\ t.tier = returned'.tier
                      /\ t.region = returned'.region
                      /\ t.allowed = returned'.result.allowed
        /\ ~(CallReturns /\ returned'.path \notin {"unlimited", "unknown"})
            => tracked' = tracked
      ]_vars

-----------------------------------------------------------------------------
(* getStats(endpoint, tier, region), lines 255-295.  An omitted filter is  *)
(* null; the empty string stands for it (both are falsy).                  *)

(* !filter *)
Omitted(filter) == filter = ""

(* parts[i] === name: a part holds no colon *)
PartIs(parts, i, name) == i <= Len(parts) /\ Split(name) = <<parts[i]>>

(* matchesPattern, lines 290-295 (parts[1] of JavaScript is the 2nd part)  *)
MatchesPattern(key, endpoint, tier, region) ==
    /\ Omitted(endpoint) \/ PartIs(key, 2, endpoint)
    /\ Omitted(tier) \/ PartIs(key, 3, tier)
    /\ Omitted(region) \/ PartIs(key, 4, region)

(* The pattern of line 260, as parts *)
StatsPattern(endpoint, tier, region) ==
    <<"analytics">>
      \o (IF Omitted(endpoint) THEN <<"*">> ELSE Split(endpoint))
      \o (IF Omitted(tier) THEN <<"*">> ELSE Split(tier))
      \o (IF Omitted(region) THEN <<"*">> ELSE Split(region))
      \o <<"*">>

(* The match of Redis KEYS: a * takes any characters, colons included, so  *)
(* one part or several (no part of a key is empty); another part of the    *)
(* pattern takes the same part of the key.                                 *)
RECURSIVE GlobMatch(_, _)
GlobMatch(pattern, key) ==
    IF pattern = << >> THEN key = << >>
    ELSE IF Head(pattern) = "*"
    THEN \E n \in 1..Len(key) :
            GlobMatch(Tail(pattern), SubSeq(key, n + 1, Len(key)))
    ELSE /\ key # << >>
         /\ Head(key) = Head(pattern)
         /\ GlobMatch(Tail(pattern), Tail(key))

(* The sum of count(k) over the keys of a set *)
RECURSIVE SumOver(_, _)
SumOver(keys, counts) ==
    IF keys = {} THEN 0
    ELSE LET k == CHOOSE x \in keys : TRUE
         IN  counts[k] + SumOver(keys \ {k}, counts)

(* The Redis branch, lines 259-270: KEYS, then GET of every key.  (The     *)
(* replies are taken from one state of the server: getStats is looked at   *)
(* when no track call is in progress.)                                     *)
GetStatsRedis(endpoint, tier, region) ==
    LET keys == { k \in DOMAIN rdStore :
                    /\ RedisHas(k)
                    /\ GlobMatch(StatsPattern(endpoint, tier, region), k) }
        counts == [k \in keys |-> rdStore[k].count]
    IN  [allowed |-> SumOver({ k \in keys : k[Len(k)] = "allowed" }, counts),
         blocked |-> SumOver({ k \in keys : k[Len(k)] = "blocked" }, counts)]

(* The in-memory branch, lines 271-282 *)
GetStatsInMemory(endpoint, tier, region) ==
    LET hits == { k \in DOMAIN inMemoryStats.hits :
                    MatchesPattern(k, endpoint, tier, region) }
        blocks == { k \in DOMAIN inMemoryStats.blocks :
                    MatchesPattern(k, endpoint, tier, region) }
    IN  [allowed |-> SumOver(hits, inMemoryStats.hits),
         blocked |-> SumOver(blocks, inMemoryStats.blocks)]

GetStats(endpoint, tier, region) ==
    IF IsHealthy THEN GetStatsRedis(endpoint, tier, region)
    ELSE GetStatsInMemory(endpoint, tier, region)

(* analytics.track called with its five arguments *)
TrackCall(userId, endpoint, tier, region, allowed) ==
    /\ Track(userId, endpoint, tier, region, allowed)
    /\ UNCHANGED <<clock, redisClient, useFallback, fbStore, locks, rdStore, call,
                   returned, ncalls, nticks, admitted, rejected, updated>>

-----------------------------------------------------------------------------
(* Specification: usage counters.  track is called for decisions of two    *)
(* endpoints, two tiers and two regions, one of them a name with a colon;  *)
(* the backend is the one chosen at the start.                             *)

MaxTracks == 3
StatsEndpoints == {"/api/search", "/api/checkout"}
StatsTiers == {"free", "premium"}
StatsRegions == {"default", "eu:west"}

NextStats ==
    \/ \E e \in StatsEndpoints, t \in StatsTiers, r \in StatsRegions, a \in BOOLEAN :
          Len(tracked) < MaxTracks /\ TrackCall("u1", e, t, r, a)
    \/ \E id \in DOMAIN tracks : TrackIncr(id)
    \/ \E id \in DOMAIN tracks : TrackExpire(id)

SpecStats == InitInitialized /\ [][NextStats]_vars

(* The tracked decisions of an outcome that a filter selects *)
TrackedMatching(endpoint, tier, region, allowed) ==
    { i \in 1..Len(tracked) :
        /\ tracked[i].allowed = allowed
        /\ Omitted(endpoint) \/ tracked[i].endpoint = endpoint
        /\ Omitted(tier) \/ tracked[i].tier = tier
        /\ Omitted(region) \/ tracked[i].region = region }

(* C27 (SpecStats): with the backend's health constant and every track     *)
(* call completed, getStats(endpoint, tier, region) returns as allowed and *)
(* blocked the numbers of tracked admitted and denied decisions whose      *)
(* endpoint, tier and region equal the filters given, an omitted filter    *)
(* matching every value.                                                   *)
C27_StatsCountTracked ==
    tracks = << >> =>
        \A e \in StatsEndpoints \cup {""}, t \in StatsTiers \cup {""},
           r \in StatsRegions \cup {"", "west"} :
            /\ GetStats(e, t, r).allowed = Cardinality(TrackedMatching(e, t, r, TRUE))
            /\ GetStats(e, t, r).blocked = Cardinality(TrackedMatching(e, t, r, FALSE))

(* The security log after a track call of task t has completed *)
LogAfter(t) ==
    IF t.allowed THEN securityLog
    ELSE LogSecurityEvent(securityLog, SecurityEvent(t.userId, t.endpoint, t.timestamp))

(* C28 (Spec): a track call of a denied decision, when it completes, has   *)
(* appended one SecurityEvent with the decision's principal and endpoint   *)
(* to the security log, whether the counters are kept in Redis or in       *)
(* memory and whether Redis answers or fails; a track call of an admitted  *)
(* decision appends none, and nothing else changes the log.                *)
C28_DenialLogged ==
    [][ IF DOMAIN tracks \ DOMAIN tracks' # {}
        THEN \A id \in DOMAIN tracks \ DOMAIN tracks' : securityLog' = LogAfter(tracks[id])
        ELSE IF Len(tracked') > Len(tracked) /\ DOMAIN tracks' = DOMAIN tracks
        THEN securityLog' = LogAfter(tracked'[Len(tracked')])
        ELSE securityLog' = securityLog
      ]_vars

-----------------------------------------------------------------------------
(* Specification: the bound of the security log.  The log holds the events *)
(* of 999 earlier denials, appended one a second; track is then called for *)
(* further decisions, on the backend chosen at the start, the clock        *)
(* standing still.                                                         *)

PriorEvents ==
    [i \in 1..(SecurityLogCap - 1) |-> SecurityEvent("u0", "/api/search", i)]

InitLog ==
    /\ clock = ClockStart
    /\ Initialized
    /\ fbStore = << >>
    /\ locks = {}
    /\ rdStore = << >>
    /\ rdQueue = << >>
    /\ call = [p \in Callers |-> IdleCall]
    /\ returned = IdleCall
    /\ ncalls = 0
    /\ nticks = 0
    /\ admitted = 0
    /\ rejected = 0
    /\ inMemoryStats = [hits |-> << >>, blocks |-> << >>]
    /\ securityLog = PriorEvents
    /\ tracks = << >>
    /\ tracked = << >>
    /\ updated = NoUpdate

LogUsers == {"u1"}

NextLog ==
    \/ \E u \in LogUsers, e \in StatsEndpoints, a \in BOOLEAN :
          Len(tracked) < MaxTracks /\ TrackCall(u, e, "free", "default", a)
    \/ \E id \in DOMAIN tracks : TrackIncr(id)
    \/ \E id \in DOMAIN tracks : TrackExpire(id)

SpecLog == InitLog /\ [][NextLog]_vars

(* C29 (SpecLog): the security log never holds more than 1000 events; an   *)
(* append to a log of fewer events puts the event after them, and an       *)
(* append to a log of 1000 drops the oldest event and keeps the other 999  *)
(* in their order, the new event last.                                     *)
C29_LogBounded ==
    [][ LET n == Len(securityLog)
            m == Len(securityLog')
        IN  /\ m <= SecurityLogCap
            /\ securityLog' # securityLog =>
                 /\ \E i \in 1..Len(tracked') :
                        /\ ~tracked'[i].allowed
                        /\ securityLog'[m] = SecurityEvent(tracked'[i].userId,
                                tracked'[i].endpoint, tracked'[i].timestamp)
                 /\ IF n < SecurityLogCap
                    THEN m = n + 1 /\ SubSeq(securityLog', 1, n) = securityLog
                    ELSE /\ m = SecurityLogCap
                         /\ SubSeq(securityLog', 1, m - 1) = SubSeq(securityLog, 2, n)
      ]_vars

(* The log is full and its oldest events have been evicted: the first      *)
(* event left is not the first one appended.                               *)
C29_Witness ==
    /\ Len(securityLog) = SecurityLogCap
    /\ securityLog[1] # PriorEvents[1]
    /\ securityLog[Len(securityLog)].userId \in LogUsers

-----------------------------------------------------------------------------
(* getSecurityLog(limit), lines 297-299 *)

(* Array.prototype.slice(start) with an integer start: a negative start    *)
(* counts from the end, and -0 is 0.                                       *)
Slice(array, start) ==
    LET len == Len(array)
        k == IF start < 0 THEN Max(len + start, 0) ELSE Min(start, len)
    IN  SubSeq(array, k + 1, len)

GetSecurityLog(limit) == Slice(securityLog, 0 - limit)

(* The limits asked for: none, fewer, as many and more events than the log *)
(* of SpecStats holds                                                      *)
LogLimits == 0..(MaxTracks + 1)

(* C30 (SpecStats): for every limit >= 0 and every length of the log,      *)
(* getSecurityLog(limit) returns the min(limit, length) events appended    *)
(* last, in the order of their appending.                                  *)
C30_MostRecentEvents ==
    \A limit \in LogLimits :
        LET len == Len(securityLog)
            n == Min(limit, len)
        IN  GetSecurityLog(limit) = SubSeq(securityLog, len - n + 1, len)

-----------------------------------------------------------------------------
(* Properties of the concurrent checks of one key *)

(* The checks whose check-and-consume has run and admitted them: those     *)
(* that have returned and those about to                                   *)
AdmittedChecks ==
    admitted + Cardinality({p \in Callers : Checked(call[p]) /\ call[p].result.allowed})

(* C31 (SpecBurst): while concurrent checks of one request run on one key  *)
(* of a new principal and no time passes, the stored token count is the    *)
(* capacity less the costs of the checks admitted so far, and a check that *)
(* finds fewer tokens than its cost is denied: with cost 1, after C        *)
(* admissions the bucket holds 0 and every further check is denied.        *)
C31_NoConsumptionLost ==
    /\ \A q \in BurstRequests :
          LET k == BucketKey(q[1], q[2])
              left == (FreshCapacity(q[2], q[3], q[4])
                         - AdmittedChecks * RequestCost(q[2], q[5])) * TokenScale
          IN  /\ k \in DOMAIN fbStore => fbStore[k].tokens = left
              /\ k \in DOMAIN rdStore => rdStore[k].tokens = left
    /\ \A p \in Callers :
          LET c == call[p]
          IN  (Checked(c) /\ c.bucket.present /\ c.bucket.tokens < c.cost * TokenScale)
                  => ~c.result.allowed

(* Concurrent cost-1 checks have used the bucket up: as many admitted as   *)
(* the capacity, the store holding 0, a further check denied while another *)
(* call is still in progress.                                              *)
C31_Witness ==
    /\ returned.pc = "returned" /\ returned.cost = 1
    /\ ~returned.result.allowed
    /\ admitted = returned.capacity
    /\ InFlight # {}
    /\ \E k \in BucketKeys(fbStore) \cup BucketKeys(rdStore) :
          (IF k \in DOMAIN fbStore THEN fbStore[k].tokens ELSE rdStore[k].tokens) = 0

-----------------------------------------------------------------------------
(* Specification: the lock of the Local Fallback.  Concurrent calls on the *)
(* fallback, on one key and on two, the clock standing still; the function *)
(* run inside the lock returns or throws.  The event loop runs every timer *)
(* and continuation that is ready, so every step of every call is fair.    *)

NextLock ==
    \/ \E p \in Callers, q \in StallRequests :
          ncalls < MaxCalls + 1 /\ CallStart(p, q[1], q[2], q[3], q[4], q[5])
    \/ \E p \in Callers : FallbackSteps(p)
    \/ \E p \in Callers : FallbackThrow(p)

SpecLock ==
    /\ InitFallback
    /\ [][NextLock]_vars
    /\ \A p \in Callers : WF_vars(FallbackSteps(p))

(* A call is inside the critical section of its key *)
InCriticalSection(c) == c.pc \in {"locked", "bucket_read", "bucket_written"}

(* C32 (SpecLock): a key's lock is held only while a check is inside that  *)
(* key's critical section, whether the section's function returns or       *)
(* throws; when every check has returned the locks map is empty.           *)
C32_LockReleasedOnEveryExit ==
    /\ \A key \in locks :
          \E p \in Callers : InCriticalSection(call[p]) /\ KeyOf(call[p]) = key
    /\ (\A p \in Callers : call[p].pc = "idle") => locks = {}

(* A check left its critical section by a throw and another check of the   *)
(* same key is inside it afterwards.                                       *)
C32_Witness ==
    /\ returned.pc = "returned" /\ returned.path = "error"
    /\ \E p \in Callers :
          /\ InCriticalSection(call[p])
          /\ KeyOf(call[p]) = KeyOf(returned)
          /\ KeyOf(call[p]) \in locks

(* C33 (SpecLock): a call that waits for its key's lock acquires it and    *)
(* returns a Decision, with every step of every call fair.                 *)
C33_WaiterReturns ==
    \A p \in Callers : (call[p].pc = "lock_wait") ~> (call[p].pc = "idle")

(* A call that waited for its key's lock has run its check and returned.   *)
C33_Witness ==
    /\ returned.pc = "returned" /\ returned.waited
    /\ returned.path = "fallback"

-----------------------------------------------------------------------------
(* The two backends compared *)

(* C34 (Spec): on the inputs of every check that runs (the bucket it read, *)
(* or none, its now, capacity, rate and cost), the Lua script of the       *)
(* Shared Backend and processFallback return the same allowed, remaining   *)
(* and retryAfter and store the same tokens and lastRefill.                *)
C34_BackendsAgree ==
    \A p \in Callers :
        LET c == call[p]
            rate == RefillRate(c.maxTokens, WindowOf(c))
            r == ProcessRedisMath(c.bucket, c.now, c.capacity, rate, c.cost)
            f == ProcessFallbackMath(c.bucket, c.now, c.capacity, rate, c.cost)
        IN  Checked(c) =>
                /\ r.allowed = f.allowed
                /\ r.remaining = f.remaining
                /\ r.retryAfter = f.retryAfter
                /\ r.tokens = f.tokens
                /\ r.lastRefill = f.lastRefill

(* C35 (Spec): the store accesses of one call (the read of the slow-start  *)
(* record, the write of a first-seen time, the bucket's check-and-consume) *)
(* all go to one backend, whatever happens to the connection while the     *)
(* call is in progress.                                                    *)
C35_OneBackendPerCall ==
    /\ \A p \in Callers : Cardinality(call[p].stores) <= 1
    /\ Cardinality(returned.stores) <= 1

-----------------------------------------------------------------------------
(* The slow-start record *)

SlowStartKeys(store) == {k \in DOMAIN store : k[1] = "slowstart"}

(* C36, as claimed (Spec): a recorded first-seen time is not overwritten   *)
(* while its record is unexpired, also when two first checks of one new    *)
(* principal run concurrently.                                             *)
C36_FirstObservationWins ==
    [][ /\ \A k \in SlowStartKeys(fbStore) \cap SlowStartKeys(fbStore') :
              fbStore[k].expiresAt > clock
                  => fbStore'[k].timestamp = fbStore[k].timestamp
        /\ \A k \in SlowStartKeys(rdStore) \cap SlowStartKeys(rdStore') :
              RedisHas(k) => rdStore'[k].timestamp = rdStore[k].timestamp
      ]_vars

(* C36, amended (Spec): a slow-start record is written only by a check     *)
(* whose read found no record of the principal, so a check that reads a    *)
(* recorded first-seen time leaves it as it is; two first checks of one    *)
(* new principal that both read before either writes both write, and the   *)
(* last write stays.                                                       *)
C36_WrittenOnlyByFirstChecks ==
    [][ /\ \A k \in SlowStartKeys(fbStore') :
              (k \notin DOMAIN fbStore \/ fbStore'[k] # fbStore[k]) =>
                  \E p \in Callers :
                      /\ call[p].pc = "ss_got" /\ call'[p].pc = "ss_done"
                      /\ SlowStartKey(call[p].userId) = k
                      /\ call[p].firstSeen = 0
                      /\ fbStore'[k].timestamp = clock
        /\ \A k \in SlowStartKeys(rdStore') :
              (k \notin DOMAIN rdStore \/ rdStore'[k] # rdStore[k]) =>
                  \E p \in Callers :
                      /\ call[p].pc = "ss_redis_set" /\ call'[p].pc = "ss_done"
                      /\ SlowStartKey(call[p].userId) = k
                      /\ call[p].firstSeen = 0
                      /\ rdStore'[k].timestamp = call[p].ssNow
      ]_vars

(* Two first checks of one principal have both written the record: a call  *)
(* that recorded its own first-seen time finds a later one in the store.   *)
C36_Witness ==
    \E p \in Callers :
        LET c == call[p]
            k == SlowStartKey(c.userId)
        IN  /\ c.pc \in {"ss_done", "lock_wait", "locked", "redis_eval"}
            /\ c.firstSeen = 0 /\ c.ssMult = StartMultiplier
            /\ \/ k \in DOMAIN fbStore /\ fbStore[k].timestamp > c.ssNow
               \/ k \in DOMAIN rdStore /\ rdStore[k].timestamp > c.ssNow

-----------------------------------------------------------------------------
(* Expiry of buckets *)

(* C37 (SpecLimits): every check sets its bucket's expiry to twice the     *)
(* window after the check; a read of the fallback never returns an entry   *)
(* whose expiry has passed (the check then starts from a full bucket); and *)
(* the sweep removes exactly the entries whose expiry has passed.          *)
C37_ExpiredEntryNeverObserved ==
    [][\A p \in Callers :
        LET c == call[p]
            k == KeyOf(c)
        IN  /\ (c.pc = "bucket_read" /\ call'[p].pc = "bucket_written") =>
                  fbStore'[k].expiresAt = clock + 2 * WindowOf(c)
            /\ (c.pc = "redis_eval" /\ call'[p].pc = "redis_replied") =>
                  rdStore'[k].expiresAt = clock + 2 * WindowOf(c)
            /\ (c.pc = "locked" /\ call'[p].pc = "bucket_read"
                  /\ k \in DOMAIN fbStore /\ fbStore[k].expiresAt < clock) =>
                  call'[p].bucket = NoBucket
            /\ (DOMAIN fbStore' # DOMAIN fbStore /\ DOMAIN fbStore' \subseteq DOMAIN fbStore) =>
                  DOMAIN fbStore' = {j \in DOMAIN fbStore : ~(fbStore[j].expiresAt < clock)}
      ]_vars

-----------------------------------------------------------------------------
(* Denied checks *)

(* C38 (Spec): a denied check takes no tokens.  On either backend it       *)
(* stores the refilled token count as it is, with lastRefill = now, and    *)
(* sets the expiry anew, so the tokens accrued up to the denial stay in    *)
(* the bucket and the next refill counts only the time after it.           *)
C38_DenialStoresRefilledTokens ==
    [][\A p \in Callers :
        LET c == call[p]
            k == KeyOf(c)
            rate == RefillRate(c.maxTokens, WindowOf(c))
        IN  /\ (c.pc = "bucket_read" /\ call'[p].pc = "bucket_written"
                  /\ ~call'[p].result.allowed) =>
                  /\ fbStore'[k].tokens = Refill(c.bucket, c.now, c.capacity, rate)
                  /\ fbStore'[k].lastRefill = c.now
                  /\ fbStore'[k].expiresAt = clock + 2 * WindowOf(c)
            /\ (c.pc = "redis_eval" /\ call'[p].pc = "redis_replied"
                  /\ ~call'[p].result.allowed) =>
                  /\ rdStore'[k].tokens =
                         Refill(RedisGetBucket(k), c.now, c.capacity, rate)
                  /\ rdStore'[k].lastRefill = c.now
                  /\ rdStore'[k].expiresAt = clock + 2 * WindowOf(c)
      ]_vars

(* A check on the fallback was denied after its bucket had gained tokens   *)
(* since the check before, and the bucket holds the refilled count.        *)
C38_Witness ==
    /\ returned.pc = "returned" /\ returned.path = "fallback"
    /\ ~returned.result.allowed
    /\ returned.bucket.present
    /\ returned.refilled > returned.bucket.tokens
    /\ KeyOf(returned) \in DOMAIN fbStore
    /\ fbStore[KeyOf(returned)].tokens = returned.refilled
    /\ fbStore[KeyOf(returned)].lastRefill = returned.now

-----------------------------------------------------------------------------
(* Specification: retrying after the wait.  One request is checked with a  *)
(* fixed slow-start multiplier, so that its capacity, rate and cost are    *)
(* the same in every check: the checks follow one another while the clock  *)
(* stands still until one is denied, the caller then waits the retryAfter  *)
(* of the denial and the request is checked once more.                     *)

(* checkRateLimit from line 39 on, getSlowStartMultiplier having returned  *)
(* ssMult: the limits, the key and now, and processFallback up to          *)
(* acquireLock or processRedis up to the eval it sends (lines 39-57).      *)
CheckWithMultiplier(p, userId, endpoint, tier, region, requestCost, ssMult) ==
    LET cfg == LIMITS.endpoints[endpoint]
        c == [IdleCall EXCEPT !.userId = userId, !.endpoint = endpoint,
                              !.tier = tier, !.region = region,
                              !.requestCost = requestCost, !.ssMult = ssMult,
                              !.maxTokens = MaxTokens(cfg, tier, region, ssMult),
                              !.capacity = TotalCapacity(cfg, tier, region, ssMult),
                              !.cost = Cost(cfg, requestCost),
                              !.now = clock,
                              !.stores = {IF UseLocal THEN "fallback" ELSE "redis"}]
    IN  /\ call[p].pc = "idle"
        /\ \A q \in Callers : q < p => call[q].pc # "idle"
        /\ ncalls' = ncalls + 1
        /\ IF UseLocal
           THEN IF LockHeld(KeyOf(c))
                THEN /\ Goto(p, [c EXCEPT !.pc = "lock_wait", !.waited = TRUE])
                     /\ UNCHANGED locks
                ELSE /\ Goto(p, [c EXCEPT !.pc = "locked"])
                     /\ locks' = LockTaken(KeyOf(c))
           ELSE /\ Goto(p, [c EXCEPT !.pc = "redis_eval"])
                /\ UNCHANGED locks
        /\ rdQueue' = IF UseLocal THEN rdQueue ELSE Append(rdQueue, p)
        /\ UNCHANGED <<clock, redisClient, useFallback, fbStore, rdStore, nticks>>

(* The caller of a denied check lets retryAfter seconds pass. *)
WaitRetryAfter ==
    /\ \A q \in Callers : call[q].pc = "idle"
    /\ returned.pc = "returned" /\ ~returned.result.allowed
    /\ returned.result.retryAfter > 0 /\ returned.result.retryAfter < Infinity
    /\ nticks = 0
    /\ nticks' = 1
    /\ clock' = clock + returned.result.retryAfter
    /\ UNCHANGED <<redisClient, useFallback, fbStore, locks, rdStore, rdQueue, call,
                   returned, ncalls, admitted, rejected, analytics, updated>>

WaitEndpoints == DOMAIN LIMITS.endpoints
WaitTiers == {"free", "premium"}
WaitRegions == {"default", "ap-south"}
WaitRequestCosts == {1, 2, 30}
WaitMultipliers == {StartMultiplier, FullMultiplier}

NextWait ==
    \/ \E p \in Callers, e \in WaitEndpoints, t \in WaitTiers, r \in WaitRegions,
          rc \in WaitRequestCosts, m \in WaitMultipliers :
          /\ SameRequest("u1", e, t, r, rc)
          /\ returned.pc = "returned" => returned.ssMult = m
          /\ \A q \in Callers : call[q].pc = "idle"
          /\ \/ nticks = 0 /\ rejected = 0
             \/ nticks = 1 /\ rejected = 1 /\ ~returned.result.allowed
          /\ CheckWithMultiplier(p, "u1", e, t, r, rc, m)
    \/ WaitRetryAfter
    \/ \E p \in Callers : FallbackGet(p)
    \/ \E p \in Callers : FallbackSet(p)
    \/ \E p \in Callers : FallbackReturn(p)
    \/ \E p \in Callers : RedisEval(p)
    \/ \E p \in Callers : RedisReturn(p)
    \/ \E id \in DOMAIN tracks : TrackIncr(id)
    \/ \E id \in DOMAIN tracks : TrackExpire(id)

SpecWait == InitInitialized /\ [][NextWait]_vars

(* C39 (SpecWait): a request denied with retryAfter = r, checked again r   *)
(* seconds later with the same capacity, rate and cost and with no other   *)
(* check of its key in between, is admitted, whatever its cost and         *)
(* capacity.                                                               *)
C39_AdmittedAfterRetryAfter ==
    \A p \in Callers :
        (nticks = 1 /\ call[p].pc \in {"bucket_written", "redis_replied"})
            => call[p].result.allowed

-----------------------------------------------------------------------------
(* Specification: health changes during a burst.  One request of cost 1 is *)
(* repeated, each check after the one before has returned and its track    *)
(* call is done, while the clock stands still; between the checks the      *)
(* client's 'error' and 'connect' events change the health of the backend. *)

(* No call is in progress and no command waits for the server. *)
Quiescent == (\A o \in Callers : call[o].pc = "idle") /\ rdQueue = << >>

FlipRequests == { <<"u1", "/api/profile", "free", "ap-south", 1>> }

NextFlip ==
    \/ \E p \in Callers, q \in FlipRequests :
          /\ Quiescent
          /\ ncalls < FreshCapacity(q[2], q[3], q[4]) + BurstExtra
          /\ CallStart(p, q[1], q[2], q[3], q[4], q[5])
    \/ \E p \in Callers : RedisSsGet(p)
    \/ \E p \in Callers : SsResume(p)
    \/ \E p \in Callers : RedisSsSet(p)
    \/ \E p \in Callers : CheckResume(p)
    \/ \E p \in Callers : FallbackGet(p)
    \/ \E p \in Callers : FallbackSet(p)
    \/ \E p \in Callers : FallbackReturn(p)
    \/ \E p \in Callers : RedisEval(p)
    \/ \E p \in Callers : RedisReturn(p)
    \/ \E id \in DOMAIN tracks : TrackIncr(id)
    \/ \E id \in DOMAIN tracks : TrackExpire(id)
    \/ Quiescent /\ RedisError
    \/ Quiescent /\ RedisConnect

SpecFlip == InitInitialized /\ [][NextFlip]_vars

(* C40 (SpecFlip): with no time passing, the checks of cost 1 admitted for *)
(* one key are at most the capacity of the key, also when the health of    *)
(* the backend changes between the checks, so that some are served by      *)
(* Redis and the others by the fallback.                                   *)
C40_BoundSurvivesHealthChange ==
    \A q \in FlipRequests :
        (returned.pc = "returned" /\ returned.endpoint = q[2])
            => admitted <= FreshCapacity(q[2], q[3], q[4])

====
